---------------------------- MODULE Spec2Model ----------------------------
(***************************************************************************)
(* Veritasor contracts: the revenue-bond registry                          *)
(* (contracts/revenue-bonds/src/lib.rs) and the attestation registry       *)
(* (contracts/attestation/src/lib.rs) as state machines.                   *)
(*                                                                         *)
(* Every contract entry point is one action.  A Soroban invocation that    *)
(* panics is rolled back by the host, so a failing call leaves the         *)
(* contract storage and the token balances as they were; the variable      *)
(* `call` records which entry point ran last and the panic message it      *)
(* ended with ("" when it returned).                                       *)
(*                                                                         *)
(* i128 / u128 are modelled as WordBits-bit two's complement / unsigned    *)
(* integers: the source's arithmetic is kept (saturating_mul,              *)
(* saturating_div, `as` casts, checked or wrapping `+`), only the word is  *)
(* narrower so that the products stay inside TLC's integers.               *)
(***************************************************************************)
EXTENDS Integers, Sequences, FiniteSets, TLC

(*************************** bounds of the model ***************************)
\* width of the modelled i128 / u128 word
WordBits == 16
\* issue_bond is explored while NextBondId is below this
MaxBonds == 1
\* the ledger timestamp runs over 0..MaxTime
MaxTime == 0
\* tokens every address holds initially
InitialBalance == 3

I128_MAX == 2 ^ (WordBits - 1) - 1
U128_MAX == 2 ^ WordBits - 1
TwoToW == 2 ^ WordBits

Addresses == {"a1", "a2", "a3"}
Periods == {"2026-02", "2026-03"}
BondIds == 0 .. (MaxBonds - 1)
Times == 0 .. MaxTime

(* Option<T>: None is the empty sequence, Some(v) the one-element sequence *)
None == << >>
Some(v) == << v >>
is_some(o) == o # None
is_none(o) == o = None
unwrap(o) == o[1]
unwrap_or(o, d) == IF o = None THEN d ELSE o[1]

Min(a, b) == IF a <= b THEN a ELSE b
Max(a, b) == IF a >= b THEN a ELSE b

VARIABLES
    Admin,          \* DataKey::Admin            : Option<Address>
    NextBondId,     \* DataKey::NextBondId       : Option<u64>
    Bond,           \* DataKey::Bond(id)         : [BondIds -> Option<Bond>]
    BondOwner,      \* DataKey::BondOwner(id)    : [BondIds -> Option<Address>]
    Redemption,     \* DataKey::Redemption(id,p) : [BondIds -> [Periods -> Option<RedemptionRecord>]]
    TotalRedeemed,  \* DataKey::TotalRedeemed(id): [BondIds -> Option<i128>]
    balance,        \* balances of the payment token
    timestamp,      \* env.ledger().timestamp() of the latest invocation
    att_storage,    \* instance storage of the attestation contract
    call,           \* the last invocation and how it ended
    calc            \* an evaluation of calculate_redemption: its arguments and result

bondVars == << Admin, NextBondId, Bond, BondOwner, Redemption, TotalRedeemed >>
vars == << Admin, NextBondId, Bond, BondOwner, Redemption, TotalRedeemed,
           balance, timestamp, att_storage, call, calc >>

NoCalc == [bond |-> None, attested_revenue |-> 0, out |-> None]
\* op: the entry point; id / who / period: the bond id, the business and the
\* period it was called for; err: the panic message ("" when it returned);
\* paid: the amount handed to the token transfer
NoCall ==
    [op |-> "none", id |-> -1, who |-> "", period |-> "", err |-> "", paid |-> 0]
Call(op, id, period, err, paid) ==
    [op |-> op, id |-> id, who |-> "", period |-> period, err |-> err, paid |-> paid]
AttCall(op, who, period, err, paid) ==
    [op |-> op, id |-> -1, who |-> who, period |-> period, err |-> err, paid |-> paid]

(* env.storage().instance() of a contract: one flat map from keys to values *)
has(store, key) == key \in DOMAIN store
get(store, key) == IF key \in DOMAIN store THEN Some(store[key]) ELSE None
set(store, key, value) ==
    [k \in (DOMAIN store) \cup {key} |-> IF k = key THEN value ELSE store[k]]
remove(store, key) == [k \in (DOMAIN store) \ {key} |-> store[k]]
EmptyStore == [k \in {} |-> 0]

(************************* integer words of the source *********************)
\* u128::saturating_mul
saturating_mul(a, b) == IF a * b > U128_MAX THEN U128_MAX ELSE a * b
\* u128::saturating_div (the divisor is never 0 here)
saturating_div(a, b) == a \div b
\* `x as u128` of an i128
as_u128(x) == IF x < 0 THEN x + TwoToW ELSE x
\* `x as i128` of a u128
as_i128(x) == IF x > I128_MAX THEN x - TwoToW ELSE x
\* two's complement wrap of a mathematical integer into i128
wrap_i128(x) == ((x + I128_MAX + 1) % TwoToW) - (I128_MAX + 1)

(* The result of an arithmetic expression that may overflow: `trap` when   *)
(* the build checks overflow and the operation panicked, otherwise the     *)
(* value.                                                                  *)
Outcome(trap, value) == [trap |-> trap, value |-> value]

\* i128 `+`: exact in range; out of range it panics in a build with
\* overflow checks and wraps in a build without them.
i128_add(a, b) ==
    IF a + b <= I128_MAX /\ a + b >= -(I128_MAX + 1)
    THEN {Outcome(FALSE, a + b)}
    ELSE {Outcome(TRUE, 0), Outcome(FALSE, wrap_i128(a + b))}

(****************************** bond registry ******************************)
Structures == {"Fixed", "RevenueLinked", "Hybrid"}

\* revenue share: (attested_revenue as u128).saturating_mul(bps as u128)
\*                    .saturating_div(10000) as i128
revenue_share(bond, attested_revenue) ==
    as_i128(saturating_div(
        saturating_mul(as_u128(attested_revenue), bond.revenue_share_bps),
        10000))

\* calculate_redemption whose Hybrid amount leaves out the fixed minimum
calculate_redemption_share_only(bond, attested_revenue) ==
    CASE bond.structure = "Fixed" ->
           {Outcome(FALSE, bond.min_payment_per_period)}
      [] bond.structure = "RevenueLinked" ->
           LET share == revenue_share(bond, attested_revenue)
           IN {Outcome(FALSE,
                   Min(Max(share, bond.min_payment_per_period),
                       bond.max_payment_per_period))}
      [] bond.structure = "Hybrid" ->
           LET revenue_component == revenue_share(bond, attested_revenue)
           IN {Outcome(FALSE, Min(revenue_component, bond.max_payment_per_period))}

\* The set of outcomes of calculate_redemption(bond, attested_revenue).
calculate_redemption(bond, attested_revenue) ==
    CASE bond.structure = "Fixed" ->
           {Outcome(FALSE, bond.min_payment_per_period)}
      [] bond.structure = "RevenueLinked" ->
           LET share == revenue_share(bond, attested_revenue)
           IN {Outcome(FALSE,
                   Min(Max(share, bond.min_payment_per_period),
                       bond.max_payment_per_period))}
      [] bond.structure = "Hybrid" ->
           LET revenue_component == revenue_share(bond, attested_revenue)
           IN {Outcome(t.trap, Min(t.value, bond.max_payment_per_period)) :
                   t \in i128_add(bond.min_payment_per_period, revenue_component)}

\* token::Client::transfer(from, to, amount): the token contract asks for
\* `from`'s authorization and a sufficient balance.
token_transfer_err(bal, from, from_auth, amount) ==
    IF ~from_auth THEN "transfer: from has not authorized"
    ELSE IF amount < 0 THEN "transfer: negative amount"
    ELSE IF bal[from] < amount THEN "transfer: balance is not sufficient"
    ELSE ""

token_transfer(bal, from, to, amount) ==
    LET debited == [bal EXCEPT ![from] = @ - amount]
    IN [debited EXCEPT ![to] = @ + amount]

AttestationContracts == {"att"}
Tokens == {"tok"}

Term(face, structure, bps, min_pay, max_pay, maturity) ==
    [face_value |-> face, structure |-> structure, revenue_share_bps |-> bps,
     min_payment_per_period |-> min_pay, max_payment_per_period |-> max_pay,
     maturity_periods |-> maturity]

\* the terms issue_bond is called with: one bond of each structure, a
\* RevenueLinked one with a positive minimum, one at the top of the i128
\* range, and one violation of each issuance assertion
IssueTerms ==
    { Term(2, "Fixed", 0, 2, 2, 1),
      Term(3, "RevenueLinked", 10000, 0, 2, 1),
      Term(3, "RevenueLinked", 2000, 1, 2, 1),
      Term(2, "Hybrid", 5000, 1, 2, 1),
      Term(I128_MAX, "Hybrid", 10000, I128_MAX, I128_MAX, 1),
      Term(0, "Fixed", 0, 2, 2, 1),
      Term(3, "Fixed", 10001, 2, 2, 1),
      Term(3, "Fixed", 0, -1, 2, 1),
      Term(3, "Fixed", 0, 0, 0, 1),
      Term(3, "Fixed", 0, 2, 1, 1),
      Term(3, "Fixed", 0, 2, 2, 0) }

\* the revenues redeem is called with
Revenues == {-1, 0, I128_MAX}

\* initialize without the `already initialized` check
initialize_again(admin, auth) ==
    LET err == IF ~auth THEN "require_auth: admin" ELSE ""
    IN /\ call' = Call("initialize", -1, "", err, 0)
       /\ IF err = ""
          THEN /\ Admin' = Some(admin)
               /\ NextBondId' = Some(0)
               /\ UNCHANGED << Bond, BondOwner, Redemption, TotalRedeemed >>
          ELSE UNCHANGED bondVars
       /\ UNCHANGED balance

\* pub fn initialize(env, admin)
initialize(admin, auth) ==
    LET err == IF ~auth THEN "require_auth: admin"
               ELSE IF is_some(Admin) THEN "already initialized"
               ELSE ""
    IN /\ call' = Call("initialize", -1, "", err, 0)
       /\ IF err = ""
          THEN /\ Admin' = Some(admin)
               /\ NextBondId' = Some(0)
               /\ UNCHANGED << Bond, BondOwner, Redemption, TotalRedeemed >>
          ELSE UNCHANGED bondVars
       /\ UNCHANGED balance

\* issue_bond_err without the assertions on the payment range
issue_bond_err_no_payment_range(issuer, initial_owner, t, auth) ==
    IF ~auth THEN "require_auth: issuer"
    ELSE IF ~(t.face_value > 0) THEN "face_value must be positive"
    ELSE IF ~(t.revenue_share_bps <= 10000) THEN "revenue_share_bps must be <= 10000"
    ELSE IF ~(t.min_payment_per_period >= 0) THEN "min_payment_per_period must be non-negative"
    ELSE IF ~(t.maturity_periods > 0) THEN "maturity_periods must be positive"
    ELSE IF issuer = initial_owner THEN "issuer and owner must differ"
    ELSE ""

\* the assertions at the head of issue_bond, in source order
issue_bond_err(issuer, initial_owner, t, auth) ==
    IF ~auth THEN "require_auth: issuer"
    ELSE IF ~(t.face_value > 0) THEN "face_value must be positive"
    ELSE IF ~(t.revenue_share_bps <= 10000) THEN "revenue_share_bps must be <= 10000"
    ELSE IF ~(t.min_payment_per_period >= 0) THEN "min_payment_per_period must be non-negative"
    ELSE IF ~(t.max_payment_per_period > 0) THEN "max_payment_per_period must be positive"
    ELSE IF ~(t.max_payment_per_period >= t.min_payment_per_period) THEN "max must be >= min"
    ELSE IF ~(t.maturity_periods > 0) THEN "maturity_periods must be positive"
    ELSE IF issuer = initial_owner THEN "issuer and owner must differ"
    ELSE ""

\* the id issue_bond gives the new bond
issue_bond_id == unwrap_or(NextBondId, 0)

\* pub fn issue_bond(env, issuer, initial_owner, face_value, structure, ...) -> u64
issue_bond(issuer, initial_owner, t, attestation_contract, token, auth) ==
    LET err == issue_bond_err(issuer, initial_owner, t, auth)
        id == issue_bond_id
        bond == [id |-> id,
                 issuer |-> issuer,
                 face_value |-> t.face_value,
                 structure |-> t.structure,
                 revenue_share_bps |-> t.revenue_share_bps,
                 min_payment_per_period |-> t.min_payment_per_period,
                 max_payment_per_period |-> t.max_payment_per_period,
                 maturity_periods |-> t.maturity_periods,
                 attestation_contract |-> attestation_contract,
                 token |-> token,
                 status |-> "Active",
                 issued_at |-> timestamp']
    IN /\ id < MaxBonds
       /\ call' = Call("issue_bond", IF err = "" THEN id ELSE -1, "", err, 0)
       /\ IF err = ""
          THEN /\ Bond' = [Bond EXCEPT ![id] = Some(bond)]
               /\ BondOwner' = [BondOwner EXCEPT ![id] = Some(initial_owner)]
               /\ TotalRedeemed' = [TotalRedeemed EXCEPT ![id] = Some(0)]
               /\ NextBondId' = Some(id + 1)
               /\ UNCHANGED << Admin, Redemption >>
          ELSE UNCHANGED bondVars
       /\ UNCHANGED balance

\* redeem_check_err without the double-redemption guard
redeem_check_err_no_period_guard(bond_id, period, attested_revenue, att_found, att_revoked) ==
    IF is_none(Bond[bond_id]) THEN "bond not found"
    ELSE IF unwrap(Bond[bond_id]).status # "Active" THEN "bond not active"
    ELSE IF ~(attested_revenue >= 0) THEN "attested_revenue must be non-negative"
    ELSE IF ~att_found THEN "attestation not found"
    ELSE IF att_revoked THEN "attestation is revoked"
    ELSE ""

\* redeem_check_err without the two attestation assertions
redeem_check_err_no_attestation(bond_id, period, attested_revenue, att_found, att_revoked) ==
    IF is_none(Bond[bond_id]) THEN "bond not found"
    ELSE IF unwrap(Bond[bond_id]).status # "Active" THEN "bond not active"
    ELSE IF ~(attested_revenue >= 0) THEN "attested_revenue must be non-negative"
    ELSE IF ~is_none(Redemption[bond_id][period]) THEN "already redeemed for period"
    ELSE ""

\* redeem up to the attestation checks: the first assertion that fails
redeem_check_err(bond_id, period, attested_revenue, att_found, att_revoked) ==
    IF is_none(Bond[bond_id]) THEN "bond not found"
    ELSE IF unwrap(Bond[bond_id]).status # "Active" THEN "bond not active"
    ELSE IF ~(attested_revenue >= 0) THEN "attested_revenue must be non-negative"
    ELSE IF ~is_none(Redemption[bond_id][period]) THEN "already redeemed for period"
    ELSE IF ~att_found THEN "attestation not found"
    ELSE IF att_revoked THEN "attestation is revoked"
    ELSE ""

\* actual_redemption without the cap at the remaining face value
actual_redemption_uncapped(bond, total_redeemed, redemption_amount) ==
    redemption_amount

\* actual_redemption = redemption_amount.min(bond.face_value - total_redeemed)
actual_redemption(bond, total_redeemed, redemption_amount) ==
    Min(redemption_amount, bond.face_value - total_redeemed)

\* redeem from the cap to the token transfer: the first step that fails
redeem_pay_err(bond_id, out, issuer_auth) ==
    LET bond == unwrap(Bond[bond_id])
        total_redeemed == unwrap_or(TotalRedeemed[bond_id], 0)
        actual == actual_redemption(bond, total_redeemed, out.value)
    IN IF out.trap THEN "attempt to add with overflow"
       ELSE IF ~(actual >= 0) THEN "bond already fully redeemed"
       ELSE IF actual > 0 /\ is_none(BondOwner[bond_id]) THEN "owner not found"
       ELSE IF actual > 0
            THEN token_transfer_err(balance, bond.issuer, issuer_auth, actual)
       ELSE ""

\* a RedemptionRecord that keeps the nominal amount instead of the paid one
redemption_record_nominal(bond_id, period, attested_revenue, redemption_amount, actual, now) ==
    [bond_id |-> bond_id,
     period |-> period,
     attested_revenue |-> attested_revenue,
     redemption_amount |-> redemption_amount,
     redeemed_at |-> now]

\* the RedemptionRecord redeem stores
redemption_record(bond_id, period, attested_revenue, redemption_amount, actual, now) ==
    [bond_id |-> bond_id,
     period |-> period,
     attested_revenue |-> attested_revenue,
     redemption_amount |-> actual,
     redeemed_at |-> now]

\* a payee taken from the bond instead of the owner entry
redeem_payee_from_bond(bond_id) ==
    unwrap(Bond[bond_id]).issuer

\* whom redeem pays: the BondOwner entry as it is stored when redeem runs
redeem_payee(bond_id) ==
    unwrap(BondOwner[bond_id])

\* redeem once every check has passed: pay, record, add up, close the bond
redeem_commit(bond_id, period, attested_revenue, out) ==
    LET bond == unwrap(Bond[bond_id])
        total_redeemed == unwrap_or(TotalRedeemed[bond_id], 0)
        actual == actual_redemption(bond, total_redeemed, out.value)
        redemption == redemption_record(bond_id, period, attested_revenue,
                                        out.value, actual, timestamp')
        new_total == total_redeemed + actual
    IN /\ call' = Call("redeem", bond_id, period, "", actual)
       /\ balance' = IF actual > 0
                     THEN token_transfer(balance, bond.issuer,
                                         redeem_payee(bond_id), actual)
                     ELSE balance
       /\ Redemption' = [Redemption EXCEPT ![bond_id][period] = Some(redemption)]
       /\ TotalRedeemed' = [TotalRedeemed EXCEPT ![bond_id] = Some(new_total)]
       /\ Bond' = IF new_total >= bond.face_value
                  THEN [Bond EXCEPT ![bond_id] =
                            Some([bond EXCEPT !.status = "FullyRedeemed"])]
                  ELSE Bond
       /\ UNCHANGED << Admin, NextBondId, BondOwner >>

\* a failing redeem whose writes are not rolled back: the period stays marked
redeem_fail_not_rolled_back(bond_id, period, err) ==
    /\ call' = Call("redeem", bond_id, period, err, 0)
    /\ Redemption' = [Redemption EXCEPT ![bond_id][period] =
                          Some(redemption_record(bond_id, period, 0, 0, 0, timestamp'))]
    /\ UNCHANGED << Admin, NextBondId, Bond, BondOwner, TotalRedeemed, balance >>

\* a redeem that panics: the host rolls the invocation back
redeem_fail(bond_id, period, err) ==
    /\ call' = Call("redeem", bond_id, period, err, 0)
    /\ UNCHANGED << bondVars, balance >>

\* pub fn redeem(env, bond_id, period, attested_revenue)
\* att_found, att_revoked: what the bond's attestation contract answers;
\* issuer_auth: whether the issuer has authorized the token transfer
redeem(bond_id, period, attested_revenue, att_found, att_revoked, issuer_auth) ==
    LET err == redeem_check_err(bond_id, period, attested_revenue,
                                att_found, att_revoked)
    IN IF err # ""
       THEN redeem_fail(bond_id, period, err)
       ELSE \E out \in calculate_redemption(unwrap(Bond[bond_id]), attested_revenue) :
                LET pay_err == redeem_pay_err(bond_id, out, issuer_auth)
                IN IF pay_err # ""
                   THEN redeem_fail(bond_id, period, pay_err)
                   ELSE redeem_commit(bond_id, period, attested_revenue, out)

\* pub fn transfer_ownership(env, bond_id, current_owner, new_owner)
transfer_ownership(bond_id, current_owner, new_owner, auth) ==
    LET err == IF ~auth THEN "require_auth: current_owner"
               ELSE IF is_none(BondOwner[bond_id]) THEN "bond not found"
               ELSE IF current_owner # unwrap(BondOwner[bond_id]) THEN "not bond owner"
               ELSE IF current_owner = new_owner THEN "cannot transfer to self"
               ELSE ""
    IN /\ call' = Call("transfer_ownership", bond_id, "", err, 0)
       /\ IF err = ""
          THEN /\ BondOwner' = [BondOwner EXCEPT ![bond_id] = Some(new_owner)]
               /\ UNCHANGED << Admin, NextBondId, Bond, Redemption, TotalRedeemed >>
          ELSE UNCHANGED bondVars
       /\ UNCHANGED balance

\* mark_defaulted without the comparison with the stored admin
mark_defaulted_any_caller(admin, bond_id, auth) ==
    LET err == IF is_none(Admin) THEN "not initialized"
               ELSE IF ~auth THEN "require_auth: admin"
               ELSE IF is_none(Bond[bond_id]) THEN "bond not found"
               ELSE IF unwrap(Bond[bond_id]).status # "Active" THEN "bond not active"
               ELSE ""
    IN /\ call' = Call("mark_defaulted", bond_id, "", err, 0)
       /\ IF err = ""
          THEN /\ Bond' = [Bond EXCEPT ![bond_id] =
                              Some([unwrap(Bond[bond_id]) EXCEPT !.status = "Defaulted"])]
               /\ UNCHANGED << Admin, NextBondId, BondOwner, Redemption, TotalRedeemed >>
          ELSE UNCHANGED bondVars
       /\ UNCHANGED balance

\* mark_defaulted that also writes off what was redeemed
mark_defaulted_reversing(admin, bond_id, auth) ==
    LET err == IF is_none(Admin) THEN "not initialized"
               ELSE IF admin # unwrap(Admin) THEN "unauthorized"
               ELSE IF ~auth THEN "require_auth: admin"
               ELSE IF is_none(Bond[bond_id]) THEN "bond not found"
               ELSE IF unwrap(Bond[bond_id]).status # "Active" THEN "bond not active"
               ELSE ""
    IN /\ call' = Call("mark_defaulted", bond_id, "", err, 0)
       /\ IF err = ""
          THEN /\ Bond' = [Bond EXCEPT ![bond_id] =
                              Some([unwrap(Bond[bond_id]) EXCEPT !.status = "Defaulted"])]
               /\ TotalRedeemed' = [TotalRedeemed EXCEPT ![bond_id] = Some(0)]
               /\ UNCHANGED << Admin, NextBondId, BondOwner, Redemption >>
          ELSE UNCHANGED bondVars
       /\ UNCHANGED balance

\* pub fn mark_defaulted(env, admin, bond_id)
mark_defaulted(admin, bond_id, auth) ==
    LET err == IF is_none(Admin) THEN "not initialized"
               ELSE IF admin # unwrap(Admin) THEN "unauthorized"
               ELSE IF ~auth THEN "require_auth: admin"
               ELSE IF is_none(Bond[bond_id]) THEN "bond not found"
               ELSE IF unwrap(Bond[bond_id]).status # "Active" THEN "bond not active"
               ELSE ""
    IN /\ call' = Call("mark_defaulted", bond_id, "", err, 0)
       /\ IF err = ""
          THEN /\ Bond' = [Bond EXCEPT ![bond_id] =
                              Some([unwrap(Bond[bond_id]) EXCEPT !.status = "Defaulted"])]
               /\ UNCHANGED << Admin, NextBondId, BondOwner, Redemption, TotalRedeemed >>
          ELSE UNCHANGED bondVars
       /\ UNCHANGED balance

\* the getters
get_total_redeemed(bond_id) == unwrap_or(TotalRedeemed[bond_id], 0)
get_redemption(bond_id, period) == Redemption[bond_id][period]
get_bond(bond_id) == Bond[bond_id]
get_owner(bond_id) == BondOwner[bond_id]

InitBond ==
    /\ Admin = None
    /\ NextBondId = None
    /\ Bond = [id \in BondIds |-> None]
    /\ BondOwner = [id \in BondIds |-> None]
    /\ Redemption = [id \in BondIds |-> [p \in Periods |-> None]]
    /\ TotalRedeemed = [id \in BondIds |-> None]
    /\ balance = [a \in Addresses |-> InitialBalance]
    /\ timestamp = 0
    /\ att_storage = EmptyStore
    /\ call = NoCall
    /\ calc = NoCalc

\* the ledger timestamp of an invocation: not before the previous one
LedgerMovesOn == timestamp' \in timestamp .. MaxTime

\* an invocation of the bond registry
BondInvocation == LedgerMovesOn /\ UNCHANGED << att_storage, calc >>

Issuers == {"a1"}
Admins == {"a3"}

DoInitialize ==
    \E admin \in Admins, auth \in BOOLEAN :
        BondInvocation /\ initialize(admin, auth)
DoIssueBond ==
    \E issuer \in Issuers, initial_owner \in Addresses, t \in IssueTerms,
       ac \in AttestationContracts, token \in Tokens, auth \in BOOLEAN :
        BondInvocation /\ issue_bond(issuer, initial_owner, t, ac, token, auth)
DoRedeem ==
    \E bond_id \in BondIds, period \in Periods, r \in Revenues,
       att_found \in BOOLEAN, att_revoked \in BOOLEAN, issuer_auth \in BOOLEAN :
        BondInvocation
        /\ redeem(bond_id, period, r, att_found, att_revoked, issuer_auth)
DoTransferOwnership ==
    \E bond_id \in BondIds, current_owner \in Addresses, new_owner \in Addresses,
       auth \in BOOLEAN :
        BondInvocation /\ transfer_ownership(bond_id, current_owner, new_owner, auth)
DoMarkDefaulted ==
    \E admin \in Addresses, bond_id \in BondIds, auth \in BOOLEAN :
        BondInvocation /\ mark_defaulted(admin, bond_id, auth)

NextBond ==
    \/ DoInitialize
    \/ DoIssueBond
    \/ DoRedeem
    \/ DoTransferOwnership
    \/ DoMarkDefaulted

SpecBond == InitBond /\ [][NextBond]_vars

(*************************** attestation registry **************************)
ANOMALY_KEY_TAG == "u32:1"
ADMIN_KEY_TAG == << "u32:2" >>
AUTHORIZED_KEY_TAG == "u32:3"
ANOMALY_SCORE_MAX == 100

\* the keys of the attestation contract's instance storage
AttestationKey(business, period) == << "Attestation", business, period >>
AuthorizedKey(analytics) == << AUTHORIZED_KEY_TAG, analytics >>
AnomalyKey(business, period) == << ANOMALY_KEY_TAG, business, period >>
\* the key set_anomaly looks the attestation up under: the bare pair
PairKey(business, period) == << business, period >>
\* the keys of the dynamic_fees module
FeeAdminKey == << "Admin" >>
FeeConfigKey == << "FeeConfig" >>
TierDiscountKey(tier) == << "TierDiscount", tier >>
BusinessTierKey(business) == << "BusinessTier", business >>
BusinessCountKey(business) == << "BusinessCount", business >>
VolumeThresholdsKey == << "VolumeThresholds" >>
VolumeDiscountsKey == << "VolumeDiscounts" >>

(* dynamic_fees: the fee engine *)
is_initialized(store) == has(store, FeeAdminKey)
get_fee_config(store) == get(store, FeeConfigKey)
get_business_tier(store, business) == unwrap_or(get(store, BusinessTierKey(business)), 0)
get_business_count(store, business) == unwrap_or(get(store, BusinessCountKey(business)), 0)
get_tier_discount(store, tier) == unwrap_or(get(store, TierDiscountKey(tier)), 0)

\* require_admin: the stored admin exists and authorizes
require_admin_err(store, auth) ==
    IF ~is_initialized(store) THEN "not initialized"
    ELSE IF ~auth THEN "require_auth: admin"
    ELSE ""

\* the discount of the highest bracket whose threshold is <= count
RECURSIVE bracket_discount(_, _, _, _)
bracket_discount(thresholds, discounts, count, i) ==
    IF i = 0 THEN 0
    ELSE IF thresholds[i] <= count THEN discounts[i]
    ELSE bracket_discount(thresholds, discounts, count, i - 1)

get_volume_discount(store, count) ==
    LET thresholds == unwrap_or(get(store, VolumeThresholdsKey), << >>)
        discounts == unwrap_or(get(store, VolumeDiscountsKey), << >>)
    IN bracket_discount(thresholds, discounts, count, Len(thresholds))

\* compute_fee(base_fee, tier_discount_bps, volume_discount_bps)
compute_fee(base_fee, tier_discount, volume_discount) ==
    LET effective == Min(tier_discount + volume_discount, 10000)
    IN (base_fee * (10000 - effective)) \div 10000

\* calculate_fee(env, business): the quote for the next attestation
calculate_fee(store, business) ==
    LET config == get_fee_config(store)
    IN IF is_none(config) \/ ~unwrap(config).enabled THEN 0
       ELSE compute_fee(unwrap(config).base_fee,
                        get_tier_discount(store, get_business_tier(store, business)),
                        get_volume_discount(store, get_business_count(store, business)))

\* whether collect_fee makes a token transfer, and of how much
collect_fee_amount(store, business) == calculate_fee(store, business)
collect_fee_transfers(store, business) ==
    LET config == get_fee_config(store)
    IN is_some(config) /\ unwrap(config).enabled
       /\ collect_fee_amount(store, business) > 0

increment_business_count(store, business) ==
    set(store, BusinessCountKey(business), get_business_count(store, business) + 1)

\* thresholds and discounts of equal length, thresholds strictly ascending
RECURSIVE strictly_ascending(_, _)
strictly_ascending(seq, i) ==
    IF i >= Len(seq) THEN TRUE
    ELSE seq[i] < seq[i + 1] /\ strictly_ascending(seq, i + 1)

set_volume_brackets_err(thresholds, discounts) ==
    IF Len(thresholds) # Len(discounts) THEN "thresholds and discounts length mismatch"
    ELSE IF ~strictly_ascending(thresholds, 1) THEN "thresholds must be strictly ascending"
    ELSE IF \E i \in 1 .. Len(discounts) : discounts[i] > 10000
         THEN "discount cannot exceed 10000 bps"
    ELSE ""

\* the outcome of an attestation-registry invocation: a panic (storage and
\* balances as before) or the new storage and balances
AttOutcome(op, who, period, err, paid, new_storage, new_balance) ==
    /\ call' = AttCall(op, who, period, err, IF err = "" THEN paid ELSE 0)
    /\ att_storage' = IF err = "" THEN new_storage ELSE att_storage
    /\ balance' = IF err = "" THEN new_balance ELSE balance

\* pub fn initialize(env, admin) of the attestation contract
att_initialize(admin, auth) ==
    LET err == IF is_initialized(att_storage) THEN "already initialized"
               ELSE IF ~auth THEN "require_auth: admin"
               ELSE ""
    IN AttOutcome("att_initialize", "", "", err, 0,
                  set(att_storage, FeeAdminKey, admin), balance)

\* pub fn configure_fees(env, token, collector, base_fee, enabled)
configure_fees(token, collector, base_fee, enabled, auth) ==
    LET err == IF require_admin_err(att_storage, auth) # ""
               THEN require_admin_err(att_storage, auth)
               ELSE IF ~(base_fee >= 0) THEN "base_fee must be non-negative"
               ELSE ""
        config == [token |-> token, collector |-> collector,
                   base_fee |-> base_fee, enabled |-> enabled]
    IN AttOutcome("configure_fees", "", "", err, 0,
                  set(att_storage, FeeConfigKey, config), balance)

\* pub fn set_tier_discount(env, tier, discount_bps)
set_tier_discount(tier, discount_bps, auth) ==
    LET err == IF require_admin_err(att_storage, auth) # ""
               THEN require_admin_err(att_storage, auth)
               ELSE IF discount_bps > 10000 THEN "discount cannot exceed 10000 bps"
               ELSE ""
    IN AttOutcome("set_tier_discount", "", "", err, 0,
                  set(att_storage, TierDiscountKey(tier), discount_bps), balance)

\* pub fn set_business_tier(env, business, tier)
set_business_tier(business, tier, auth) ==
    LET err == require_admin_err(att_storage, auth)
    IN AttOutcome("set_business_tier", business, "", err, 0,
                  set(att_storage, BusinessTierKey(business), tier), balance)

\* set_volume_brackets that stores the thresholds before it validates
set_volume_brackets_partial(thresholds, discounts, auth) ==
    LET err == IF require_admin_err(att_storage, auth) # ""
               THEN require_admin_err(att_storage, auth)
               ELSE set_volume_brackets_err(thresholds, discounts)
    IN /\ call' = AttCall("set_volume_brackets", "", "", err, 0)
       /\ att_storage' =
              IF require_admin_err(att_storage, auth) # "" THEN att_storage
              ELSE IF err # "" THEN set(att_storage, VolumeThresholdsKey, thresholds)
              ELSE set(set(att_storage, VolumeThresholdsKey, thresholds),
                       VolumeDiscountsKey, discounts)
       /\ balance' = balance

\* pub fn set_volume_brackets(env, thresholds, discounts)
set_volume_brackets(thresholds, discounts, auth) ==
    LET err == IF require_admin_err(att_storage, auth) # ""
               THEN require_admin_err(att_storage, auth)
               ELSE set_volume_brackets_err(thresholds, discounts)
    IN AttOutcome("set_volume_brackets", "", "", err, 0,
                  set(set(att_storage, VolumeThresholdsKey, thresholds),
                      VolumeDiscountsKey, discounts),
                  balance)

\* pub fn set_fee_enabled(env, enabled)
set_fee_enabled(enabled, auth) ==
    LET err == IF require_admin_err(att_storage, auth) # ""
               THEN require_admin_err(att_storage, auth)
               ELSE IF is_none(get_fee_config(att_storage)) THEN "fees not configured"
               ELSE ""
    IN AttOutcome("set_fee_enabled", "", "", err, 0,
                  set(att_storage, FeeConfigKey,
                      [unwrap(get_fee_config(att_storage)) EXCEPT !.enabled = enabled]),
                  balance)

\* the duplicate check looking under the bare (business, period) pair
attestation_exists_pair_key(business, period) ==
    has(att_storage, PairKey(business, period))

\* the duplicate check left out
attestation_exists_unchecked(business, period) == FALSE

\* env.storage().instance().has(&DataKey::Attestation(business, period))
attestation_exists(business, period) ==
    has(att_storage, AttestationKey(business, period))

\* submit_attestation without the call of increment_business_count
submit_attestation_uncounted(business, period, merkle_root, ts, version, auth) ==
    LET key == AttestationKey(business, period)
        transfers == collect_fee_transfers(att_storage, business)
        fee_paid == collect_fee_amount(att_storage, business)
        err == IF ~auth THEN "require_auth: business"
               ELSE IF attestation_exists(business, period)
                    THEN "attestation already exists for this business and period"
               ELSE IF transfers
                    THEN token_transfer_err(balance, business, auth, fee_paid)
               ELSE ""
        data == << merkle_root, ts, version, fee_paid >>
    IN AttOutcome("submit_attestation", business, period, err, fee_paid,
                  set(att_storage, key, data),
                  IF transfers
                  THEN token_transfer(balance, business,
                                      unwrap(get_fee_config(att_storage)).collector,
                                      fee_paid)
                  ELSE balance)

\* submit_attestation that counts the submission before it prices the fee
submit_attestation_counted_first(business, period, merkle_root, ts, version, auth) ==
    LET key == AttestationKey(business, period)
        counted == increment_business_count(att_storage, business)
        transfers == collect_fee_transfers(counted, business)
        fee_paid == collect_fee_amount(counted, business)
        err == IF ~auth THEN "require_auth: business"
               ELSE IF attestation_exists(business, period)
                    THEN "attestation already exists for this business and period"
               ELSE IF transfers
                    THEN token_transfer_err(balance, business, auth, fee_paid)
               ELSE ""
        data == << merkle_root, ts, version, fee_paid >>
    IN AttOutcome("submit_attestation", business, period, err, fee_paid,
                  set(counted, key, data),
                  IF transfers
                  THEN token_transfer(balance, business,
                                      unwrap(get_fee_config(att_storage)).collector,
                                      fee_paid)
                  ELSE balance)

\* submit_attestation whose failed fee transfer does not undo the counting
submit_attestation_counts_failures(business, period, merkle_root, ts, version, auth) ==
    LET key == AttestationKey(business, period)
        transfers == collect_fee_transfers(att_storage, business)
        fee_paid == collect_fee_amount(att_storage, business)
        err == IF ~auth THEN "require_auth: business"
               ELSE IF attestation_exists(business, period)
                    THEN "attestation already exists for this business and period"
               ELSE IF transfers
                    THEN token_transfer_err(balance, business, auth, fee_paid)
               ELSE ""
        counted == increment_business_count(att_storage, business)
        data == << merkle_root, ts, version, fee_paid >>
    IN /\ call' = AttCall("submit_attestation", business, period, err,
                          IF err = "" THEN fee_paid ELSE 0)
       /\ att_storage' = IF err = "" THEN set(counted, key, data)
                         ELSE IF err = "transfer: balance is not sufficient" THEN counted
                         ELSE att_storage
       /\ balance' = IF err = "" /\ transfers
                     THEN token_transfer(balance, business,
                                         unwrap(get_fee_config(att_storage)).collector,
                                         fee_paid)
                     ELSE balance

\* submit_attestation that stores 0 in place of the fee collect_fee returned
submit_attestation_fee_not_recorded(business, period, merkle_root, ts, version, auth) ==
    LET key == AttestationKey(business, period)
        transfers == collect_fee_transfers(att_storage, business)
        fee_paid == collect_fee_amount(att_storage, business)
        err == IF ~auth THEN "require_auth: business"
               ELSE IF attestation_exists(business, period)
                    THEN "attestation already exists for this business and period"
               ELSE IF transfers
                    THEN token_transfer_err(balance, business, auth, fee_paid)
               ELSE ""
        counted == increment_business_count(att_storage, business)
        data == << merkle_root, ts, version, 0 >>
    IN AttOutcome("submit_attestation", business, period, err, fee_paid,
                  set(counted, key, data),
                  IF transfers
                  THEN token_transfer(balance, business,
                                      unwrap(get_fee_config(att_storage)).collector,
                                      fee_paid)
                  ELSE balance)

\* pub fn submit_attestation(env, business, period, merkle_root, timestamp, version)
submit_attestation(business, period, merkle_root, ts, version, auth) ==
    LET key == AttestationKey(business, period)
        transfers == collect_fee_transfers(att_storage, business)
        fee_paid == collect_fee_amount(att_storage, business)
        err == IF ~auth THEN "require_auth: business"
               ELSE IF attestation_exists(business, period)
                    THEN "attestation already exists for this business and period"
               ELSE IF transfers
                    THEN token_transfer_err(balance, business, auth, fee_paid)
               ELSE ""
        counted == increment_business_count(att_storage, business)
        data == << merkle_root, ts, version, fee_paid >>
    IN AttOutcome("submit_attestation", business, period, err, fee_paid,
                  set(counted, key, data),
                  IF transfers
                  THEN token_transfer(balance, business,
                                      unwrap(get_fee_config(att_storage)).collector,
                                      fee_paid)
                  ELSE balance)

\* pub fn get_attestation(env, business, period)
get_attestation(business, period) == get(att_storage, AttestationKey(business, period))

\* pub fn verify_attestation(env, business, period, merkle_root)
verify_attestation(business, period, merkle_root) ==
    IF is_some(get_attestation(business, period))
    THEN unwrap(get_attestation(business, period))[1] = merkle_root
    ELSE FALSE

\* init without the `admin already set` check
init_again(admin, auth) ==
    LET err == IF ~auth THEN "require_auth: admin" ELSE ""
    IN AttOutcome("init", "", "", err, 0,
                  set(att_storage, ADMIN_KEY_TAG, admin), balance)

\* pub fn init(env, admin)
init(admin, auth) ==
    LET err == IF ~auth THEN "require_auth: admin"
               ELSE IF has(att_storage, ADMIN_KEY_TAG) THEN "admin already set"
               ELSE ""
    IN AttOutcome("init", "", "", err, 0,
                  set(att_storage, ADMIN_KEY_TAG, admin), balance)

\* the admin check of add_ / remove_authorized_analytics
analytics_admin_err(caller, auth) ==
    IF ~auth THEN "require_auth: caller"
    ELSE IF ~has(att_storage, ADMIN_KEY_TAG) THEN "admin not set"
    ELSE IF caller # att_storage[ADMIN_KEY_TAG] THEN "caller is not admin"
    ELSE ""

\* pub fn add_authorized_analytics(env, caller, analytics)
add_authorized_analytics(caller, analytics, auth) ==
    AttOutcome("add_authorized_analytics", analytics, "",
               analytics_admin_err(caller, auth), 0,
               set(att_storage, AuthorizedKey(analytics), "()"), balance)

\* pub fn remove_authorized_analytics(env, caller, analytics)
remove_authorized_analytics(caller, analytics, auth) ==
    AttOutcome("remove_authorized_analytics", analytics, "",
               analytics_admin_err(caller, auth), 0,
               remove(att_storage, AuthorizedKey(analytics)), balance)

\* set_anomaly without the updater and attestation checks
set_anomaly_ungated(updater, business, period, flags, score, auth) ==
    LET err == IF ~auth THEN "require_auth: updater"
               ELSE IF score > ANOMALY_SCORE_MAX THEN "score out of range"
               ELSE ""
    IN AttOutcome("set_anomaly", business, period, err, 0,
                  set(att_storage, AnomalyKey(business, period), << flags, score >>),
                  balance)

\* pub fn set_anomaly(env, updater, business, period, flags, score)
set_anomaly(updater, business, period, flags, score, auth) ==
    LET err == IF ~auth THEN "require_auth: updater"
               ELSE IF ~has(att_storage, AuthorizedKey(updater))
                    THEN "updater not authorized"
               ELSE IF ~has(att_storage, PairKey(business, period))
                    THEN "attestation does not exist for this business and period"
               ELSE IF score > ANOMALY_SCORE_MAX THEN "score out of range"
               ELSE ""
    IN AttOutcome("set_anomaly", business, period, err, 0,
                  set(att_storage, AnomalyKey(business, period), << flags, score >>),
                  balance)

\* pub fn get_anomaly(env, business, period)
get_anomaly(business, period) == get(att_storage, AnomalyKey(business, period))

\* a quote without the discounts: the base fee of an enabled schedule
get_fee_quote_undiscounted(business) ==
    IF is_some(get_fee_config(att_storage)) /\ unwrap(get_fee_config(att_storage)).enabled
    THEN unwrap(get_fee_config(att_storage)).base_fee
    ELSE 0

\* pub fn get_fee_quote(env, business)
get_fee_quote(business) == calculate_fee(att_storage, business)

\* the inputs the attestation registry is called with
Businesses == {"a1", "a2"}
FeeAdmins == {"a3"}
Collectors == {"a3"}
BaseFees == {-1, 2}
Tiers == {1}
DiscountInputs == {5000, 10001}
BracketInputs ==
    { << << 1 >>, << 5000 >> >>,
      << << 1 >>, << >> >>,
      << << 2, 1 >>, << 0, 5000 >> >> }
\* (business, period, merkle_root, timestamp, version)
AttestationInputs ==
    { << "a1", "2026-02", "r1", 1, 1 >>,
      << "a1", "2026-02", "r2", 2, 2 >>,
      << "a1", "2026-03", "r1", 1, 1 >>,
      << "a2", "2026-02", "r1", 1, 1 >> }
\* the business whose tier the admin sets
TierBusinesses == {"a1"}
AnalyticsAdmins == {"a3"}
AnalyticsCallers == {"a1", "a3"}
Analysts == {"a2"}
Updaters == {"a2", "a3"}
AnomalyPeriods == {"2026-02"}
\* (flags, score)
AnomalyInputs == { << 1, 50 >>, << 1, 101 >> }

InitAtt ==
    /\ Admin = None
    /\ NextBondId = None
    /\ Bond = [id \in BondIds |-> None]
    /\ BondOwner = [id \in BondIds |-> None]
    /\ Redemption = [id \in BondIds |-> [p \in Periods |-> None]]
    /\ TotalRedeemed = [id \in BondIds |-> None]
    /\ balance = [a \in Addresses |-> InitialBalance]
    /\ timestamp = 0
    /\ att_storage = EmptyStore
    /\ call = NoCall
    /\ calc = NoCalc

\* an invocation of the attestation registry
AttInvocation == UNCHANGED << bondVars, timestamp, calc >>

DoAttInitialize ==
    \E admin \in FeeAdmins, auth \in BOOLEAN :
        AttInvocation /\ att_initialize(admin, auth)
DoConfigureFees ==
    \E token \in Tokens, collector \in Collectors, base_fee \in BaseFees,
       enabled \in BOOLEAN, auth \in BOOLEAN :
        AttInvocation /\ configure_fees(token, collector, base_fee, enabled, auth)
DoSetTierDiscount ==
    \E tier \in Tiers, bps \in DiscountInputs, auth \in BOOLEAN :
        AttInvocation /\ set_tier_discount(tier, bps, auth)
DoSetBusinessTier ==
    \E business \in TierBusinesses, tier \in Tiers, auth \in BOOLEAN :
        AttInvocation /\ set_business_tier(business, tier, auth)
DoSetVolumeBrackets ==
    \E b \in BracketInputs, auth \in BOOLEAN :
        AttInvocation /\ set_volume_brackets(b[1], b[2], auth)
DoSetFeeEnabled ==
    \E enabled \in BOOLEAN, auth \in BOOLEAN :
        AttInvocation /\ set_fee_enabled(enabled, auth)
DoSubmitAttestation ==
    \E d \in AttestationInputs, auth \in BOOLEAN :
        AttInvocation /\ submit_attestation(d[1], d[2], d[3], d[4], d[5], auth)
DoInit ==
    \E admin \in AnalyticsAdmins, auth \in BOOLEAN :
        AttInvocation /\ init(admin, auth)
DoAddAuthorizedAnalytics ==
    \E caller \in AnalyticsCallers, analytics \in Analysts, auth \in BOOLEAN :
        AttInvocation /\ add_authorized_analytics(caller, analytics, auth)
DoRemoveAuthorizedAnalytics ==
    \E caller \in AnalyticsCallers, analytics \in Analysts, auth \in BOOLEAN :
        AttInvocation /\ remove_authorized_analytics(caller, analytics, auth)
DoSetAnomaly ==
    \E updater \in Updaters, business \in TierBusinesses, period \in AnomalyPeriods,
       a \in AnomalyInputs, auth \in BOOLEAN :
        AttInvocation /\ set_anomaly(updater, business, period, a[1], a[2], auth)

NextAtt ==
    \/ DoAttInitialize
    \/ DoConfigureFees
    \/ DoSetTierDiscount
    \/ DoSetBusinessTier
    \/ DoSetVolumeBrackets
    \/ DoSetFeeEnabled
    \/ DoSubmitAttestation
    \/ DoInit
    \/ DoAddAuthorizedAnalytics
    \/ DoRemoveAuthorizedAnalytics
    \/ DoSetAnomaly

SpecAtt == InitAtt /\ [][NextAtt]_vars

(******************* calculate_redemption on its own ***********************)
\* the bonds issue_bond accepts, over a grid of terms up to the top of i128
CalcTerms ==
    { t \in { Term(I128_MAX, st, bps, lo, hi, 1) :
                  st \in Structures, bps \in {0, 1, 2000, 10000},
                  lo \in {0, 1, 3, I128_MAX}, hi \in {1, 3, 6, I128_MAX} } :
          issue_bond_err("a1", "a2", t, TRUE) = "" }

\* the revenues redeem accepts (attested_revenue >= 0)
CalcRevenues == {0, 1, 5, 6, 7, 10000, I128_MAX}

InitCalc ==
    /\ Admin = None
    /\ NextBondId = None
    /\ Bond = [id \in BondIds |-> None]
    /\ BondOwner = [id \in BondIds |-> None]
    /\ Redemption = [id \in BondIds |-> [p \in Periods |-> None]]
    /\ TotalRedeemed = [id \in BondIds |-> None]
    /\ balance = [a \in Addresses |-> InitialBalance]
    /\ timestamp = 0
    /\ att_storage = EmptyStore
    /\ call = NoCall
    /\ calc \in { [bond |-> Some(t), attested_revenue |-> r, out |-> None] :
                      t \in CalcTerms, r \in CalcRevenues }

Calculate ==
    /\ is_none(calc.out)
    /\ \E out \in calculate_redemption(unwrap(calc.bond), calc.attested_revenue) :
           calc' = [calc EXCEPT !.out = Some(out)]
    /\ UNCHANGED << bondVars, balance, timestamp, att_storage, call >>

NextCalc == Calculate

SpecCalc == InitCalc /\ [][NextCalc]_vars

(*********************** the fee quote on its own **************************)
\* the bracket tables the admin writes and the setter accepts; base fees and
\* tier discounts are drawn in the actions below (tier 0 is the tier of a
\* business that has none assigned)
FeeBrackets ==
    { << << 1 >>, << 5000 >> >>,
      << << 1, 2 >>, << 2500, 7500 >> >>,
      << << 1, 2 >>, << 5000, 0 >> >>,
      << << 2 >>, << 10000 >> >> }
\* bracket tables the setter refuses: lengths differ, thresholds not ascending
RejectedBrackets ==
    { << << 1 >>, << >> >>,
      << << 1, 2 >>, << 5000 >> >>,
      << << 2, 1 >>, << 0, 5000 >> >>,
      << << 1, 1 >>, << 2500, 2500 >> >> }
\* the usage counter is followed up to this count
MaxCount == 3

FeeInvocation == UNCHANGED << bondVars, timestamp, calc >>

FeeInitialize ==
    \E admin \in FeeAdmins : FeeInvocation /\ att_initialize(admin, TRUE)
FeeConfigure ==
    \E token \in Tokens, collector \in Collectors, base_fee \in {0, 1, 3, 10000},
       enabled \in BOOLEAN :
        FeeInvocation /\ configure_fees(token, collector, base_fee, enabled, TRUE)
FeeSetTierDiscount ==
    \E tier \in {0, 1}, bps \in {0, 2500, 10000} :
        FeeInvocation /\ set_tier_discount(tier, bps, TRUE)
FeeSetBusinessTier ==
    \E business \in TierBusinesses, tier \in {0, 1} :
        FeeInvocation /\ set_business_tier(business, tier, TRUE)
FeeSetVolumeBrackets ==
    \E b \in FeeBrackets \cup RejectedBrackets :
        FeeInvocation /\ set_volume_brackets(b[1], b[2], TRUE)
\* the counting step of a submission (submit_attestation, after the fee)
FeeCountSubmission ==
    \E business \in TierBusinesses :
        /\ get_business_count(att_storage, business) < MaxCount
        /\ FeeInvocation
        /\ AttOutcome("increment_business_count", business, "", "", 0,
                      increment_business_count(att_storage, business), balance)
\* get_fee_quote(business): the quote is kept in call.paid
FeeQuote ==
    \E business \in TierBusinesses :
        /\ FeeInvocation
        /\ AttOutcome("get_fee_quote", business, "", "", get_fee_quote(business),
                      att_storage, balance)

NextFee ==
    \/ FeeInitialize
    \/ FeeConfigure
    \/ FeeSetTierDiscount
    \/ FeeSetBusinessTier
    \/ FeeSetVolumeBrackets
    \/ FeeCountSubmission
    \/ FeeQuote

SpecFee == InitAtt /\ [][NextFee]_vars

(********************* the two registries and their admins ******************)
(* The bond registry and the attestation registry are two contract          *)
(* instances with disjoint storage.  A behaviour of this specification      *)
(* exercises one of them, with every operation of that registry, and with   *)
(* two candidate admins for its one-time setup.                             *)
AdminCandidates == {"a2", "a3"}

BondRegistryOnly == att_storage = EmptyStore
AttRegistryOnly ==
    /\ Admin = None
    /\ NextBondId = None
    /\ \A id \in BondIds : is_none(Bond[id])

AdminInitialize ==
    \E admin \in AdminCandidates, auth \in BOOLEAN :
        BondRegistryOnly /\ BondInvocation /\ initialize(admin, auth)
AdminInit ==
    \E admin \in AdminCandidates, auth \in BOOLEAN :
        AttRegistryOnly /\ AttInvocation /\ init(admin, auth)

NextAdmin ==
    \/ AdminInitialize
    \/ BondRegistryOnly /\ DoIssueBond
    \/ BondRegistryOnly /\ DoRedeem
    \/ BondRegistryOnly /\ DoTransferOwnership
    \/ BondRegistryOnly /\ DoMarkDefaulted
    \/ AdminInit
    \/ AttRegistryOnly /\ NextAtt

SpecAdmin == InitBond /\ [][NextAdmin]_vars

(***************************** dispute lifecycle ****************************)
(* Disputes against stored attestations: Open -> Resolved -> Closed.  The   *)
(* disputes live in the instance storage of the attestation registry: a     *)
(* counter, one record per id, and two index lists.                         *)
MaxDisputes == 2
DisputeIds == 0 .. MaxDisputes

DisputeCountKey == << "DisputeCount" >>
DisputeKey(id) == << "Dispute", id >>
DisputesByAttestationKey(business, period) == << "DisputesByAttestation", business, period >>
DisputesByChallengerKey(challenger) == << "DisputesByChallenger", challenger >>

Resolution(resolver, outcome, resolved_at, notes) ==
    [resolver |-> resolver, outcome |-> outcome, timestamp |-> resolved_at,
     notes |-> notes]
Dispute(id, challenger, business, period, type, evidence, opened_at) ==
    [id |-> id, challenger |-> challenger, business |-> business,
     period |-> period, status |-> "Open", dispute_type |-> type,
     evidence |-> evidence, timestamp |-> opened_at, resolution |-> None]

\* the getters: by id, by attestation, by challenger
get_dispute(id) == get(att_storage, DisputeKey(id))
get_disputes_by_attestation(business, period) ==
    unwrap_or(get(att_storage, DisputesByAttestationKey(business, period)), << >>)
get_disputes_by_challenger(challenger) ==
    unwrap_or(get(att_storage, DisputesByChallengerKey(challenger)), << >>)
get_dispute_count == unwrap_or(get(att_storage, DisputeCountKey), 0)

\* the challenger already holds an open dispute on this attestation
has_open_dispute(challenger, business, period) ==
    \E i \in DOMAIN get_disputes_by_attestation(business, period) :
        LET d == att_storage[DisputeKey(get_disputes_by_attestation(business, period)[i])]
        IN d.challenger = challenger /\ d.status = "Open"

DisputeOutcome(op, id, who, period, err, new_storage) ==
    /\ call' = [op |-> op, id |-> id, who |-> who, period |-> period,
                err |-> err, paid |-> 0]
    /\ att_storage' = IF err = "" THEN new_storage ELSE att_storage
    /\ UNCHANGED balance

\* openDispute(challenger, business, period, type, evidence) -> disputeId
openDispute(challenger, business, period, type, evidence, auth) ==
    LET err == IF ~auth THEN "require_auth: challenger"
               ELSE IF is_none(get_attestation(business, period))
               THEN "attestation not found"
               ELSE IF has_open_dispute(challenger, business, period)
               THEN "dispute already open"
               ELSE ""
        id == get_dispute_count
        s1 == set(att_storage, DisputeCountKey, id + 1)
        s2 == set(s1, DisputeKey(id),
                  Dispute(id, challenger, business, period, type, evidence, timestamp'))
        s3 == set(s2, DisputesByAttestationKey(business, period),
                  Append(get_disputes_by_attestation(business, period), id))
        s4 == set(s3, DisputesByChallengerKey(challenger),
                  Append(get_disputes_by_challenger(challenger), id))
    IN DisputeOutcome("openDispute", IF err = "" THEN id ELSE -1,
                      business, period, err, s4)

\* resolveDispute without the status check
resolveDispute_any_status(id, resolver, outcome, notes, authorized) ==
    LET err == IF is_none(get_dispute(id)) THEN "dispute not found"
               ELSE IF ~authorized THEN "resolver not authorized"
               ELSE ""
        d == att_storage[DisputeKey(id)]
    IN DisputeOutcome("resolveDispute", id, "", "", err,
                      set(att_storage, DisputeKey(id),
                          [d EXCEPT !.status = "Resolved",
                                    !.resolution = Some(Resolution(resolver, outcome,
                                                                   timestamp', notes))]))

\* resolveDispute(disputeId, resolver, outcome, notes)
resolveDispute(id, resolver, outcome, notes, authorized) ==
    LET err == IF is_none(get_dispute(id)) THEN "dispute not found"
               ELSE IF unwrap(get_dispute(id)).status # "Open" THEN "wrong status"
               ELSE IF ~authorized THEN "resolver not authorized"
               ELSE ""
        d == att_storage[DisputeKey(id)]
    IN DisputeOutcome("resolveDispute", id, "", "", err,
                      set(att_storage, DisputeKey(id),
                          [d EXCEPT !.status = "Resolved",
                                    !.resolution = Some(Resolution(resolver, outcome,
                                                                   timestamp', notes))]))

\* closeDispute without the status check
closeDispute_any_status(id) ==
    LET err == IF is_none(get_dispute(id)) THEN "dispute not found" ELSE ""
        d == att_storage[DisputeKey(id)]
    IN DisputeOutcome("closeDispute", id, "", "", err,
                      set(att_storage, DisputeKey(id), [d EXCEPT !.status = "Closed"]))

\* closeDispute(disputeId)
closeDispute(id) ==
    LET err == IF is_none(get_dispute(id)) THEN "dispute not found"
               ELSE IF unwrap(get_dispute(id)).status # "Resolved" THEN "wrong status"
               ELSE ""
        d == att_storage[DisputeKey(id)]
    IN DisputeOutcome("closeDispute", id, "", "", err,
                      set(att_storage, DisputeKey(id), [d EXCEPT !.status = "Closed"]))



DisputeSubmitAttestation ==
    \E auth \in BOOLEAN :
        AttInvocation /\ submit_attestation("a1", "2026-02", "r1", 1, 1, auth)
DoOpenDispute ==
    \E challenger \in {"a2", "a3"}, period \in Periods, auth \in BOOLEAN :
        /\ get_dispute_count < MaxDisputes
        /\ LedgerMovesOn /\ UNCHANGED << bondVars, calc >>
        /\ openDispute(challenger, "a1", period, "RevenueMismatch", "e1", auth)
DoResolveDispute ==
    \E id \in DisputeIds, outcome \in {"Upheld", "Rejected"}, authorized \in BOOLEAN :
        /\ LedgerMovesOn /\ UNCHANGED << bondVars, calc >>
        /\ resolveDispute(id, "a3", outcome, "n1", authorized)
DoCloseDispute ==
    \E id \in DisputeIds :
        LedgerMovesOn /\ UNCHANGED << bondVars, calc >> /\ closeDispute(id)

NextDispute ==
    \/ DisputeSubmitAttestation
    \/ DoOpenDispute
    \/ DoResolveDispute
    \/ DoCloseDispute

SpecDispute == InitAtt /\ [][NextDispute]_vars

(********************************* claims **********************************)
\* floor(r * bps / 10000) over the mathematical integers
FloorShare(r, bps) == (r * bps) \div 10000

Existing == { id \in BondIds : is_some(Bond[id]) }
RedeemCallOn(c, id, p) == c.op = "redeem" /\ c.id = id /\ c.period = p

\* C1: No double redemption.  Once a RedemptionRecord is stored for
\* (bond_id, period) it is never written again, and every later redeem for
\* that (bond_id, period) fails and leaves TotalRedeemed and the redemption
\* records as they were.
C1_NoDoubleRedemption ==
    [][\A id \in BondIds, p \in Periods :
          is_some(Redemption[id][p]) =>
              /\ Redemption'[id][p] = Redemption[id][p]
              /\ RedeemCallOn(call', id, p) =>
                     /\ call'.err # ""
                     /\ TotalRedeemed' = TotalRedeemed
                     /\ Redemption' = Redemption]_vars

\* C1 witness: a second redeem for a redeemed (bond_id, period) has been refused
C1_Witness ==
    /\ call.op = "redeem"
    /\ call.err = "already redeemed for period"
    /\ is_some(Redemption[call.id][call.period])
    /\ get_total_redeemed(call.id) > 0

\* C2: Face-value cap.  TotalRedeemed never exceeds face_value; a bond whose
\* TotalRedeemed equals face_value is FullyRedeemed; and every redeem on such
\* a bond fails.
C2_FaceValueCap ==
    /\ [](\A id \in Existing :
              /\ get_total_redeemed(id) <= unwrap(Bond[id]).face_value
              /\ get_total_redeemed(id) = unwrap(Bond[id]).face_value
                     => unwrap(Bond[id]).status = "FullyRedeemed")
    /\ [][\A id \in Existing :
              (/\ get_total_redeemed(id) = unwrap(Bond[id]).face_value
               /\ call'.op = "redeem" /\ call'.id = id)
                  => call'.err # "" /\ UNCHANGED << bondVars, balance >>]_vars

\* C2 witness: a capped last payment brought the bond exactly to face_value,
\* and a further redeem was refused
C2_Witness ==
    /\ call.op = "redeem" /\ call.err = "bond not active"
    /\ is_some(Bond[call.id])
    /\ get_total_redeemed(call.id) = unwrap(Bond[call.id]).face_value
    /\ \E p \in Periods :
           /\ is_some(Redemption[call.id][p])
           /\ unwrap(Redemption[call.id][p]).redemption_amount
                  < unwrap(Bond[call.id]).max_payment_per_period

\* C3: TotalRedeemed is monotonically non-decreasing: get_total_redeemed(id)
\* never decreases in any step of initialize, issue_bond, redeem,
\* transfer_ownership or mark_defaulted.
C3_TotalRedeemedMonotonic ==
    [][\A id \in BondIds :
          get_total_redeemed(id)' >= get_total_redeemed(id)]_vars

\* C4: A bond is created once: a successful issue_bond returns an id under
\* which no Bond, BondOwner or TotalRedeemed entry is stored yet.
C4_BondCreatedOnce ==
    [][(call'.op = "issue_bond" /\ call'.err = "" /\ Bond' # Bond) =>
          /\ is_none(Bond[call'.id])
          /\ is_none(BondOwner[call'.id])
          /\ is_none(TotalRedeemed[call'.id])]_vars

\* C5: Bond status state machine: the status of a stored bond changes only
\* Active -> FullyRedeemed (in redeem, when the new total reaches face_value)
\* or Active -> Defaulted (in mark_defaulted); a FullyRedeemed or Defaulted
\* bond keeps its status and every redeem on it fails.
C5_StatusStateMachine ==
    [][\A id \in Existing :
          LET old == unwrap(Bond[id]).status
              new == unwrap(Bond'[id]).status
          IN /\ is_some(Bond'[id])
             /\ old # new =>
                    /\ old = "Active"
                    /\ \/ /\ new = "FullyRedeemed"
                          /\ call'.op = "redeem" /\ call'.id = id
                          /\ get_total_redeemed(id)' >= unwrap(Bond[id]).face_value
                       \/ /\ new = "Defaulted"
                          /\ call'.op = "mark_defaulted" /\ call'.id = id
             /\ old # "Active" =>
                    /\ new = old
                    /\ (call'.op = "redeem" /\ call'.id = id) => call'.err # ""]_vars

\* C6: Structure formulas: for every accepted bond and attested revenue
\* r >= 0, calculate_redemption returns min_payment_per_period for Fixed,
\* clamp(floor(r * bps / 10000), min, max) for RevenueLinked and
\* min(min + floor(r * bps / 10000), max) for Hybrid.
C6_StructureFormulas ==
    is_some(calc.out) =>
        LET b == unwrap(calc.bond)
            r == calc.attested_revenue
            share == FloorShare(r, b.revenue_share_bps)
            lo == b.min_payment_per_period
            hi == b.max_payment_per_period
            expected == CASE b.structure = "Fixed" -> lo
                          [] b.structure = "RevenueLinked" -> Min(Max(share, lo), hi)
                          [] b.structure = "Hybrid" -> Min(lo + share, hi)
        IN /\ ~unwrap(calc.out).trap
           /\ unwrap(calc.out).value = expected

\* C7: For every successful redeem the stored redemption_amount is the
\* post-cap amount min(nominal, face_value - TotalRedeemed before the call),
\* and that amount is what the token transfer moves from the issuer to the
\* owner and what TotalRedeemed grows by.
C7_RecordIsActualAmount ==
    [][\A id \in BondIds, p \in Periods :
          (RedeemCallOn(call', id, p) /\ call'.err = "" /\ Redemption' # Redemption) =>
              LET bond == unwrap(Bond[id])
                  owner == unwrap(BondOwner[id])
                  before == get_total_redeemed(id)
                  rec == unwrap(Redemption'[id][p])
                  amount == rec.redemption_amount
              IN /\ \E out \in calculate_redemption(bond, rec.attested_revenue) :
                        /\ ~out.trap
                        /\ amount = Min(out.value, bond.face_value - before)
                 /\ call'.paid = amount
                 /\ get_total_redeemed(id)' = before + amount
                 /\ \A a \in Addresses :
                        balance'[a] = balance[a]
                                        - (IF a = bond.issuer THEN amount ELSE 0)
                                        + (IF a = owner THEN amount ELSE 0)]_vars

\* C7 witness: a redeem whose payment was cut down to the remaining headroom
C7_Witness ==
    /\ call.op = "redeem" /\ call.err = ""
    /\ call.paid > 0
    /\ \E out \in calculate_redemption(
                      unwrap(Bond[call.id]),
                      unwrap(Redemption[call.id][call.period]).attested_revenue) :
           call.paid < out.value
    /\ unwrap(Redemption[call.id][call.period]).redemption_amount = call.paid
    /\ balance[unwrap(BondOwner[call.id])] > InitialBalance

\* C8: No zero-amount redemption record is ever written: every stored
\* RedemptionRecord has redemption_amount > 0, and a redeem that returns has
\* paid a positive amount.
C8_NoZeroAmountRecord ==
    /\ \A id \in BondIds, p \in Periods :
           is_some(Redemption[id][p]) =>
               unwrap(Redemption[id][p]).redemption_amount > 0
    /\ (call.op = "redeem" /\ call.err = "") => call.paid > 0

SubmitCallOn(c, b, p) == c.op = "submit_attestation" /\ c.who = b /\ c.period = p

\* C9: Attestation is write-once.  Once an attestation is stored for
\* (business, period), every later submit_attestation for that key fails:
\* the stored (merkle_root, timestamp, version, fee_paid) stays as the first
\* call left it, nothing else in storage changes and no fee is transferred.
C9_AttestationWriteOnce ==
    [][\A b \in Businesses, p \in Periods :
          is_some(get_attestation(b, p)) =>
              /\ get_attestation(b, p)' = get_attestation(b, p)
              /\ SubmitCallOn(call', b, p) =>
                     /\ call'.err # ""
                     /\ call'.paid = 0
                     /\ att_storage' = att_storage
                     /\ balance' = balance]_vars

\* C9 witness: a second submission for a stored, fee-paying attestation was
\* refused while the business could have paid again
C9_Witness ==
    /\ call.op = "submit_attestation"
    /\ call.err = "attestation already exists for this business and period"
    /\ is_some(get_attestation(call.who, call.period))
    /\ unwrap(get_attestation(call.who, call.period))[4] > 0
    /\ get_fee_quote(call.who) > 0
    /\ balance[call.who] >= get_fee_quote(call.who)

\* C10: Attestation immutability.  Once an attestation is stored for
\* (business, period), no operation of the attestation contract changes or
\* deletes its merkle root, timestamp or version.
C10_AttestationImmutable ==
    [][\A b \in Businesses, p \in Periods :
          is_some(get_attestation(b, p)) =>
              /\ is_some(get_attestation(b, p)')
              /\ \A i \in 1 .. 3 :
                     unwrap(get_attestation(b, p)')[i] = unwrap(get_attestation(b, p))[i]]_vars

\* C10 witness: with an attestation stored, the fee schedule, the tier and
\* bracket tables and the analytics set have all been written, and the
\* business has submitted for a further period
C10_Witness ==
    /\ is_some(get_attestation("a1", "2026-02"))
    /\ is_some(get_attestation("a1", "2026-03"))
    /\ unwrap(get_attestation("a1", "2026-02"))[4]
           # unwrap(get_attestation("a1", "2026-03"))[4]
    /\ has(att_storage, FeeConfigKey)
    /\ has(att_storage, TierDiscountKey(1))
    /\ has(att_storage, BusinessTierKey("a1"))
    /\ has(att_storage, VolumeThresholdsKey)
    /\ has(att_storage, ADMIN_KEY_TAG)
    /\ call.op = "remove_authorized_analytics" /\ call.err = ""

\* what transfer_ownership(bond_id, current_owner, new_owner) must find to go
\* through: the caller's authorization, the stored owner, another new owner
TransferAllowed(id, current_owner, new_owner, auth) ==
    /\ auth
    /\ is_some(BondOwner[id])
    /\ current_owner = unwrap(BondOwner[id])
    /\ new_owner # current_owner

\* a transfer_ownership step goes through exactly when it is allowed, and
\* then stores new_owner; otherwise it panics and no owner changes
TransferIsOwnerOnly ==
    call'.op = "transfer_ownership" =>
        \A current_owner \in Addresses, new_owner \in Addresses, auth \in BOOLEAN :
            transfer_ownership(call'.id, current_owner, new_owner, auth) =>
                IF TransferAllowed(call'.id, current_owner, new_owner, auth)
                THEN call'.err = "" /\ BondOwner'[call'.id] = Some(new_owner)
                ELSE call'.err # "" /\ BondOwner' = BondOwner

\* the owner stored for a bond changes in a successful transfer_ownership only
OwnerChangesByTransferOnly ==
    \A id \in BondIds :
        (is_some(BondOwner[id]) /\ BondOwner'[id] # BondOwner[id]) =>
            /\ call'.op = "transfer_ownership"
            /\ call'.id = id
            /\ call'.err = ""

\* C11: Ownership transfer is owner-only.  transfer_ownership changes
\* BondOwner only when current_owner is the stored owner (and authorizes) and
\* new_owner differs from current_owner; otherwise it fails and the owner is
\* unchanged; and no other operation changes the BondOwner of an existing bond.
C11_OwnerOnlyTransfer ==
    [][TransferIsOwnerOnly /\ OwnerChangesByTransferOnly]_vars

\* the part of C11 that is about transfer_ownership itself
C11_TransferOwnershipItself ==
    [][TransferIsOwnerOnly]_vars

\* C12: Redemption pays the owner at call time.  In every successful redeem
\* with a positive amount the tokens go from the bond's issuer to the address
\* stored as BondOwner when the call is made: after transfer_ownership the
\* new owner is paid, and no other address (a former or the initial owner)
\* receives anything.
C12_PaysOwnerAtCallTime ==
    [][\A id \in BondIds :
          (call'.op = "redeem" /\ call'.id = id /\ call'.err = "" /\ call'.paid > 0) =>
              LET issuer == unwrap(Bond[id]).issuer
                  owner == unwrap(BondOwner[id])
              IN /\ is_some(BondOwner[id])
                 /\ \A a \in Addresses :
                        balance'[a] = balance[a]
                                        - (IF a = issuer THEN call'.paid ELSE 0)
                                        + (IF a = owner THEN call'.paid ELSE 0)
                 /\ \A a \in Addresses \ {owner} : balance'[a] <= balance[a]]_vars

\* C12 witness: bond 0 was issued once (initialize never ran), and two
\* redemptions of it have paid two different addresses, the second after the
\* first payee handed the bond on
C12_Witness ==
    /\ Admin = None
    /\ NextBondId = Some(1)
    /\ call.op = "redeem" /\ call.err = "" /\ call.paid > 0
    /\ \E old \in Addresses, new \in Addresses :
           /\ old # new
           /\ BondOwner[call.id] = Some(new)
           /\ balance[old] > InitialBalance
           /\ balance[new] > InitialBalance

\* C13: redeem requires a valid attestation.  Unless the bond's attestation
\* contract returns a record for (bond.issuer, period) and answers
\* is_revoked(bond.issuer, period) with false, redeem fails and changes
\* neither the registry nor any balance: a redeem step either panics with
\* everything unchanged, or it was made with an attestation that was found
\* and is not revoked.
C13_RedeemNeedsAttestation ==
    [][\/ call'.op # "redeem"
       \/ call'.err # "" /\ UNCHANGED << bondVars, balance >>
       \/ \A r \in Revenues, att_found \in BOOLEAN, att_revoked \in BOOLEAN,
             issuer_auth \in BOOLEAN :
              redeem(call'.id, call'.period, r, att_found, att_revoked, issuer_auth)
                  => att_found /\ ~att_revoked]_vars

\* C13 witness: a redeem that nothing but the revoked attestation stopped: the
\* bond is Active, has headroom, the period is open and the issuer can pay,
\* and the bond's other period has been redeemed
C13_Witness ==
    /\ call.op = "redeem" /\ call.err = "attestation is revoked"
    /\ is_some(Bond[call.id])
    /\ unwrap(Bond[call.id]).status = "Active"
    /\ is_none(Redemption[call.id][call.period])
    /\ \E p \in Periods : is_some(Redemption[call.id][p])
    /\ get_total_redeemed(call.id) > 0
    /\ balance[unwrap(Bond[call.id]).issuer]
           >= unwrap(Bond[call.id]).face_value - get_total_redeemed(call.id)

\* the panics of redeem that come from the token transfer
TransferFailures ==
    { "transfer: balance is not sufficient", "transfer: from has not authorized" }

\* redeem(id, p, ..) would go through as soon as the issuer holds the amount
\* and authorizes: every check passes and only the payment is open
RedeemableOnceFunded(id, p) ==
    /\ is_some(Bond[id])
    /\ \E r \in Revenues :
           /\ redeem_check_err(id, p, r, TRUE, FALSE) = ""
           /\ \E out \in calculate_redemption(unwrap(Bond[id]), r) :
                  LET bond == unwrap(Bond[id])
                      actual == actual_redemption(bond, get_total_redeemed(id), out.value)
                  IN /\ ~out.trap
                     /\ actual > 0
                     /\ is_some(BondOwner[id])
                     /\ token_transfer_err([balance EXCEPT ![bond.issuer] = actual],
                                           bond.issuer, TRUE, actual) = ""

\* the (bond_id, period) of the last call is redeemable once funded
LastRedeemStillOpen == RedeemableOnceFunded(call.id, call.period)

\* C14: redeem is atomic.  If the token transfer from the issuer to the
\* owner fails (the issuer's balance is below the amount), redeem fails, no
\* RedemptionRecord is written, TotalRedeemed, the bond status and the
\* balances are unchanged, and the same (bond_id, period) is still open: a
\* later redeem for it goes through once the issuer can pay.
C14_RedeemAtomic ==
    [][(call'.op = "redeem" /\ call'.err \in TransferFailures) =>
          /\ UNCHANGED << bondVars, balance >>
          /\ is_none(Redemption'[call'.id][call'.period])
          /\ unwrap(Bond'[call'.id]).status = "Active"
          /\ LastRedeemStillOpen']_vars

\* C14 witness: a redeem was refused because the issuer holds less than the
\* amount due; the period is open and the bond Active with headroom
C14_Witness ==
    /\ call.op = "redeem" /\ call.err = "transfer: balance is not sufficient"
    /\ is_none(Redemption[call.id][call.period])
    /\ unwrap(Bond[call.id]).status = "Active"
    /\ get_total_redeemed(call.id) < unwrap(Bond[call.id]).face_value
    /\ balance[unwrap(Bond[call.id]).issuer] > 0
    /\ LastRedeemStillOpen

\* what mark_defaulted(admin, bond_id) must find to go through
DefaultAllowed(admin, id, auth) ==
    /\ auth
    /\ Admin = Some(admin)
    /\ is_some(Bond[id])
    /\ unwrap(Bond[id]).status = "Active"

\* C15: mark_defaulted is admin-only and Active-only.  It changes state only
\* when the given admin is the stored admin (and authorizes) and the bond
\* exists with status Active, and then the bond becomes Defaulted; in every
\* other case it fails and nothing in the registry changes.
C15_MarkDefaultedAdminOnly ==
    [][call'.op = "mark_defaulted" =>
          \A admin \in Addresses, auth \in BOOLEAN :
              mark_defaulted(admin, call'.id, auth) =>
                  IF DefaultAllowed(admin, call'.id, auth)
                  THEN /\ call'.err = ""
                       /\ unwrap(Bond'[call'.id]).status = "Defaulted"
                  ELSE /\ call'.err # ""
                       /\ UNCHANGED << bondVars, balance >>]_vars

\* C15 witness: with an admin stored, an address that is not the admin asked
\* to default an Active, partly redeemed bond and was refused
C15_Witness ==
    /\ call.op = "mark_defaulted" /\ call.err = "unauthorized"
    /\ is_some(Admin)
    /\ is_some(Bond[call.id])
    /\ unwrap(Bond[call.id]).status = "Active"
    /\ get_total_redeemed(call.id) > 0

\* the fields of a stored Bond other than its status
BondTermFields ==
    { "id", "issuer", "face_value", "structure", "revenue_share_bps",
      "min_payment_per_period", "max_payment_per_period", "maturity_periods",
      "attestation_contract", "token", "issued_at" }

\* C16: mark_defaulted does not reverse past redemptions.  A successful call
\* changes only the status field of the bond: TotalRedeemed, every
\* RedemptionRecord, BondOwner, the other Bond fields, the other bonds and
\* the token balances keep their values.
C16_MarkDefaultedFrame ==
    [][(call'.op = "mark_defaulted" /\ call'.err = "") =>
          /\ TotalRedeemed' = TotalRedeemed
          /\ Redemption' = Redemption
          /\ BondOwner' = BondOwner
          /\ UNCHANGED << Admin, NextBondId, balance >>
          /\ \A id \in BondIds \ {call'.id} : Bond'[id] = Bond[id]
          /\ is_some(Bond[call'.id]) /\ is_some(Bond'[call'.id])
          /\ DOMAIN unwrap(Bond'[call'.id]) = BondTermFields \cup {"status"}
          /\ \A f \in BondTermFields :
                 unwrap(Bond'[call'.id])[f] = unwrap(Bond[call'.id])[f]
          /\ unwrap(Bond'[call'.id]).status = "Defaulted"]_vars

\* C16 witness: a bond with a paid redemption on record was marked Defaulted;
\* the record, the total and the owner's tokens are still there
C16_Witness ==
    /\ call.op = "mark_defaulted" /\ call.err = ""
    /\ unwrap(Bond[call.id]).status = "Defaulted"
    /\ get_total_redeemed(call.id) > 0
    /\ \E p \in Periods :
           /\ is_some(Redemption[call.id][p])
           /\ unwrap(Redemption[call.id][p]).redemption_amount = get_total_redeemed(call.id)
    /\ balance[unwrap(BondOwner[call.id])] > InitialBalance

\* the issuance constraints on the terms of a bond
IssuanceConstraints(t) ==
    /\ t.face_value > 0
    /\ t.revenue_share_bps <= 10000
    /\ t.min_payment_per_period >= 0
    /\ t.max_payment_per_period > 0
    /\ t.max_payment_per_period >= t.min_payment_per_period
    /\ t.maturity_periods > 0

\* the panics of issue_bond that report a violated issuance constraint
ConstraintPanics ==
    { "face_value must be positive", "revenue_share_bps must be <= 10000",
      "min_payment_per_period must be non-negative",
      "max_payment_per_period must be positive", "max must be >= min",
      "maturity_periods must be positive" }

\* C17: Every stored bond satisfies the issuance constraints (face_value > 0,
\* revenue_share_bps <= 10000, min_payment_per_period >= 0,
\* max_payment_per_period > 0, max >= min, maturity_periods > 0), and an
\* issue_bond call whose terms violate one of them fails without creating a
\* bond or advancing NextBondId.
C17_IssuanceConstraints ==
    /\ [](\A id \in Existing : IssuanceConstraints(unwrap(Bond[id])))
    /\ [][\/ call'.op # "issue_bond"
          \/ call'.err # "" /\ UNCHANGED << bondVars, balance >>
          \/ \A issuer \in Issuers, initial_owner \in Addresses, t \in IssueTerms,
                ac \in AttestationContracts, token \in Tokens, auth \in BOOLEAN :
                 issue_bond(issuer, initial_owner, t, ac, token, auth)
                     => IssuanceConstraints(t)]_vars

\* C17 witness: with a bond stored and NextBondId at 0 again, an issue_bond
\* with max below min was refused; the stored bond and NextBondId are as before
C17_Witness ==
    /\ call.op = "issue_bond" /\ call.err \in ConstraintPanics
    /\ call.err = "max must be >= min"
    /\ NextBondId = Some(0)
    /\ Existing # {}
    /\ \A id \in Existing : IssuanceConstraints(unwrap(Bond[id]))

\* the attestations stored for a business: one per successful submission,
\* since an attestation is written once and never removed
Submitted(b) == { p \in Periods : is_some(get_attestation(b, p)) }

\* C18: Usage counter.  For every business get_business_count is the number
\* of its successful submit_attestation calls: a successful submission adds
\* exactly one to the counter of that business (also when fees are disabled
\* or not configured) and leaves the other counters alone; a failed
\* submission and every other operation leave all counters unchanged; the
\* counter never decreases.
C18_UsageCounter ==
    /\ [](\A b \in Businesses :
              get_business_count(att_storage, b) = Cardinality(Submitted(b)))
    /\ [][\A b \in Businesses :
              LET before == get_business_count(att_storage, b)
                  after == get_business_count(att_storage', b)
              IN /\ after >= before
                 /\ IF call'.op = "submit_attestation" /\ call'.err = "" /\ call'.who = b
                    THEN after = before + 1
                    ELSE after = before]_vars

\* C18 witness: both businesses have submitted, a1 twice; a1 paid a fee for
\* one attestation and none for the last one, which was counted all the same
C18_Witness ==
    /\ call.op = "submit_attestation" /\ call.err = "" /\ call.who = "a1"
    /\ call.paid = 0
    /\ get_business_count(att_storage, "a1") = 2
    /\ get_business_count(att_storage, "a2") = 1
    /\ \E p \in Periods :
           /\ is_some(get_attestation("a1", p))
           /\ unwrap(get_attestation("a1", p))[4] > 0
    /\ LET config == get_fee_config(att_storage)
       IN is_some(config) /\ ~unwrap(config).enabled

\* the fee of a submission priced with usage count n: 0 while fees are
\* disabled or not configured
FeeAtCount(store, b, n) ==
    LET config == get_fee_config(store)
    IN IF is_none(config) \/ ~unwrap(config).enabled THEN 0
       ELSE compute_fee(unwrap(config).base_fee,
                        get_tier_discount(store, get_business_tier(store, b)),
                        get_volume_discount(store, n))

\* C19: Discounts are earned by past volume.  The fee charged by the n-th
\* successful submit_attestation of a business is priced with usage count
\* n - 1 (the fee is collected before the counter is incremented): the
\* submission that brings the counter to a bracket threshold is not itself
\* given that bracket's discount.
C19_PricedBeforeIncrement ==
    [][\A b \in Businesses, p \in Periods :
          (SubmitCallOn(call', b, p) /\ call'.err = "") =>
              LET n == get_business_count(att_storage', b)
                  fee == FeeAtCount(att_storage, b, n - 1)
              IN /\ n = get_business_count(att_storage, b) + 1
                 /\ call'.paid = fee
                 /\ unwrap(get_attestation(b, p)')[4] = fee
                 /\ balance'[b] = balance[b] - fee]_vars

\* C19 witness: the first submission of a1 brought its counter to the
\* threshold 1 of a bracket with a discount and was charged the whole base
\* fee; the quote for its next submission is lower
C19_Witness ==
    /\ call.op = "submit_attestation" /\ call.err = "" /\ call.who = "a1"
    /\ get_business_count(att_storage, "a1") = 1
    /\ get_volume_discount(att_storage, 1) > 0
    /\ get_volume_discount(att_storage, 0) = 0
    /\ get_tier_discount(att_storage, get_business_tier(att_storage, "a1")) = 0
    /\ is_some(get_fee_config(att_storage))
    /\ call.paid = unwrap(get_fee_config(att_storage)).base_fee
    /\ call.paid > get_fee_quote("a1")

\* submit_attestation(b, p, ..) would go through with fees switched off or
\* the business funded: the business may submit and the key is free
StillSubmittable(b, p) ==
    /\ ~attestation_exists(b, p)
    /\ is_none(get_attestation(b, p))

\* the key of the last call is still free
LastSubmissionStillOpen == StillSubmittable(call.who, call.period)

\* C20: Fee collection and attestation storage are atomic together.  If the
\* fee transfer fails during submit_attestation (the business holds less than
\* the fee), the submission fails: no attestation is stored for
\* (business, period), the usage counter is not incremented, no token moves,
\* and the key stays free, so that a later submission for it can succeed.
C20_FeeAndStorageAtomic ==
    [][(call'.op = "submit_attestation" /\ call'.err \in TransferFailures) =>
          /\ att_storage' = att_storage
          /\ balance' = balance
          /\ \A b \in Businesses :
                 get_business_count(att_storage', b) = get_business_count(att_storage, b)
          /\ LastSubmissionStillOpen']_vars

\* C20 witness: a1 could not pay the fee for its second attestation: the
\* first one is stored and counted, the second is neither
C20_Witness ==
    /\ call.op = "submit_attestation"
    /\ call.err = "transfer: balance is not sufficient"
    /\ get_business_count(att_storage, call.who) = 1
    /\ Cardinality(Submitted(call.who)) = 1
    /\ is_none(get_attestation(call.who, call.period))
    /\ get_fee_quote(call.who) > balance[call.who]

\* fees are charged in this state: a fee configuration exists and is enabled
FeesOn(store) ==
    is_some(get_fee_config(store)) /\ unwrap(get_fee_config(store)).enabled

\* C21: When no fee configuration exists or its enabled flag is false,
\* submit_attestation makes no token transfer, still stores the attestation
\* and records fee_paid = 0; when fees are enabled the stored fee_paid is the
\* amount that moved from the business to the collector in that call.
C21_FeePaidIsWhatMoved ==
    [][\A b \in Businesses, p \in Periods :
          (SubmitCallOn(call', b, p) /\ call'.err = "") =>
              /\ is_none(get_attestation(b, p))
              /\ is_some(get_attestation(b, p)')
              /\ LET fee_paid == unwrap(get_attestation(b, p)')[4]
                 IN IF ~FeesOn(att_storage)
                    THEN fee_paid = 0 /\ balance' = balance
                    ELSE LET collector == unwrap(get_fee_config(att_storage)).collector
                         IN \A a \in Addresses :
                                balance'[a] = balance[a]
                                                - (IF a = b THEN fee_paid ELSE 0)
                                                + (IF a = collector THEN fee_paid ELSE 0)]_vars

\* C21 witness: a2 submitted while fees were off (fee_paid 0, nothing moved
\* from it), then a1 submitted with fees on and its stored fee_paid is what
\* it paid the collector
C21_Witness ==
    /\ call.op = "submit_attestation" /\ call.err = "" /\ call.who = "a1"
    /\ call.paid > 0
    /\ unwrap(get_attestation("a1", call.period))[4] = call.paid
    /\ balance["a1"] = InitialBalance - call.paid
    /\ balance["a3"] = InitialBalance + call.paid
    /\ is_some(get_attestation("a2", "2026-02"))
    /\ unwrap(get_attestation("a2", "2026-02"))[4] = 0
    /\ balance["a2"] = InitialBalance

\* the discount of the highest bracket whose threshold is <= count, 0 if none
VolumeDiscountOf(store, count) ==
    LET thresholds == unwrap_or(get(store, VolumeThresholdsKey), << >>)
        discounts == unwrap_or(get(store, VolumeDiscountsKey), << >>)
        reached == { i \in 1 .. Len(thresholds) : thresholds[i] <= count }
    IN IF reached = {} THEN 0
       ELSE discounts[CHOOSE i \in reached :
                          \A j \in reached : thresholds[j] <= thresholds[i]]

\* the tier of a business: 0 when none is assigned
TierOf(store, b) ==
    IF has(store, BusinessTierKey(b)) THEN store[BusinessTierKey(b)] ELSE 0

\* the discount of the business's tier: 0 when the tier has no discount set
TierDiscountOf(store, b) ==
    IF has(store, TierDiscountKey(TierOf(store, b)))
    THEN store[TierDiscountKey(TierOf(store, b))]
    ELSE 0

\* the tier discount as C23 words it: 0 when the business has no tier
\* assigned or the tier has no discount set
TierDiscountIfAssigned(store, b) ==
    IF has(store, BusinessTierKey(b)) THEN TierDiscountOf(store, b) ELSE 0

\* floor(base_fee * (10000 - min(tier + volume, 10000)) / 10000)
FeeFormula(base_fee, tier_discount, volume_discount) ==
    (base_fee * (10000 - Min(tier_discount + volume_discount, 10000))) \div 10000

\* 0 <= fee <= base_fee for every configuration, and what get_fee_quote
\* returned is the fee
FeeInRange(b) ==
    LET fee == get_fee_quote(b)
        config == get_fee_config(att_storage)
    IN /\ fee >= 0
       /\ is_some(config) => fee <= unwrap(config).base_fee
       /\ is_none(config) => fee = 0
       /\ (call.op = "get_fee_quote" /\ call.who = b) => call.paid = fee

\* C23 (as stated): Fee formula.  The quoted fee equals
\* floor(base_fee * (10000 - min(tierDiscount + volumeDiscount, 10000)) / 10000),
\* where tierDiscount is the discount of the business's tier (0 if the
\* business or the tier is unset) and volumeDiscount the discount of the
\* highest bracket whose threshold is <= the usage count (0 if none); hence
\* 0 <= fee <= base_fee for every configuration.
C23_FeeFormula_AsStated ==
    \A b \in TierBusinesses :
        /\ FeeInRange(b)
        /\ FeesOn(att_storage) =>
               get_fee_quote(b) =
                   FeeFormula(unwrap(get_fee_config(att_storage)).base_fee,
                              TierDiscountIfAssigned(att_storage, b),
                              VolumeDiscountOf(att_storage,
                                               get_business_count(att_storage, b)))

\* C23 (amended): Fee formula.  The quoted fee of an enabled fee schedule is
\* floor(base_fee * (10000 - min(tierDiscount + volumeDiscount, 10000)) / 10000),
\* where tierDiscount is the discount set for the business's tier, a business
\* without an assignment being in tier 0 (0 if that tier has no discount
\* set), and volumeDiscount the discount of the highest bracket whose
\* threshold is <= the usage count (0 if none); 0 <= fee <= base_fee for
\* every configuration.
C23_FeeFormula ==
    \A b \in TierBusinesses :
        /\ FeeInRange(b)
        /\ FeesOn(att_storage) =>
               get_fee_quote(b) =
                   FeeFormula(unwrap(get_fee_config(att_storage)).base_fee,
                              TierDiscountOf(att_storage, b),
                              VolumeDiscountOf(att_storage,
                                               get_business_count(att_storage, b)))

\* C23 witness: a business without a tier assignment is quoted with the
\* discount of tier 0 and that of the bracket it has reached, and the
\* division rounds down: base fee 3, discounts 2500 and 2500, fee 1
C23_Witness ==
    /\ call.op = "get_fee_quote" /\ call.who = "a1"
    /\ FeesOn(att_storage)
    /\ ~has(att_storage, BusinessTierKey("a1"))
    /\ unwrap(get_fee_config(att_storage)).base_fee = 3
    /\ TierDiscountOf(att_storage, "a1") = 2500
    /\ VolumeDiscountOf(att_storage, get_business_count(att_storage, "a1")) = 2500
    /\ call.paid = 1

\* the quote of b is taken under the same base fee before and after the step
SameBaseFee ==
    /\ FeesOn(att_storage) /\ FeesOn(att_storage')
    /\ unwrap(get_fee_config(att_storage')).base_fee
           = unwrap(get_fee_config(att_storage)).base_fee

\* the step raises the discount set for b's tier and changes nothing else
TierDiscountRaised(b) ==
    /\ call'.op = "set_tier_discount" /\ call'.err = ""
    /\ TierDiscountOf(att_storage', b) >= TierDiscountOf(att_storage, b)

\* the step takes b's usage count past a bracket threshold that it had not
\* reached: b is in a higher bracket afterwards
CrossedIntoHigherBracket(b) ==
    LET thresholds == unwrap_or(get(att_storage, VolumeThresholdsKey), << >>)
        before == get_business_count(att_storage, b)
        after == get_business_count(att_storage', b)
    IN /\ call'.op = "increment_business_count" /\ call'.who = b
       /\ \E i \in 1 .. Len(thresholds) :
              before < thresholds[i] /\ thresholds[i] <= after

\* C22: Fee monotonicity.  For a fixed base fee, raising the discount of a
\* business's tier, or the business's usage count crossing into a higher
\* volume bracket, never increases the quoted fee, and the quoted fee is
\* never negative.
C22_FeeMonotonicity ==
    /\ [](\A b \in TierBusinesses : get_fee_quote(b) >= 0)
    /\ [][\A b \in TierBusinesses :
              (SameBaseFee /\ (TierDiscountRaised(b) \/ CrossedIntoHigherBracket(b)))
                  => get_fee_quote(b)' <= get_fee_quote(b)]_vars

\* the tier half of C22, and the sign of the fee
C22_TierDiscountAndSign ==
    /\ [](\A b \in TierBusinesses : get_fee_quote(b) >= 0)
    /\ [][\A b \in TierBusinesses :
              (SameBaseFee /\ TierDiscountRaised(b))
                  => get_fee_quote(b)' <= get_fee_quote(b)]_vars

\* a bracket table set_volume_brackets has to accept: as many discounts as
\* thresholds, thresholds strictly ascending
WellFormedBrackets(thresholds, discounts) ==
    /\ Len(thresholds) = Len(discounts)
    /\ \A i \in 1 .. Len(thresholds), j \in 1 .. Len(thresholds) :
           i < j => thresholds[i] < thresholds[j]

\* the stored bracket table: thresholds and discounts, None where unset
BracketTable(store) ==
    << get(store, VolumeThresholdsKey), get(store, VolumeDiscountsKey) >>

\* C24: set_volume_brackets validates atomically.  A call whose thresholds
\* and discounts differ in length, or whose thresholds are not strictly
\* ascending, fails and leaves the stored bracket table (and all else)
\* unchanged; a valid call by the admin replaces the whole table.
C24_BracketsAtomic ==
    [][call'.op = "set_volume_brackets" =>
          \A b \in FeeBrackets \cup RejectedBrackets :
              set_volume_brackets(b[1], b[2], TRUE) =>
                  IF WellFormedBrackets(b[1], b[2]) /\ is_initialized(att_storage)
                  THEN /\ call'.err = ""
                       /\ BracketTable(att_storage') = << Some(b[1]), Some(b[2]) >>
                  ELSE /\ call'.err # ""
                       /\ BracketTable(att_storage') = BracketTable(att_storage)
                       /\ att_storage' = att_storage]_vars

\* C24 witness: with the two-bracket table stored, a call with thresholds
\* that do not ascend was refused and the table is whole
C24_Witness ==
    /\ call.op = "set_volume_brackets"
    /\ call.err = "thresholds must be strictly ascending"
    /\ BracketTable(att_storage) = << Some(<< 1, 2 >>), Some(<< 2500, 7500 >>) >>

\* the authorized-analytics set: added by the admin and not removed since
Authorized(updater) == has(att_storage, AuthorizedKey(updater))

C26_SetAnomalyStores ==
    [][call'.op = "set_anomaly" =>
          \A updater \in Updaters, b \in TierBusinesses, p \in AnomalyPeriods,
            a \in AnomalyInputs :
              ( /\ set_anomaly(updater, b, p, a[1], a[2], TRUE)
                /\ Authorized(updater)
                /\ is_some(get_attestation(b, p))
                /\ a[2] <= ANOMALY_SCORE_MAX )
              => /\ call'.err = ""
                 /\ get_anomaly(b, p)' = Some(<< a[1], a[2] >>)]_vars

\* the refusal that contradicts C26: an authorized updater, a stored
\* attestation, and set_anomaly reports that the attestation does not exist
C26_RefusedDespiteAttestation ==
    /\ call.op = "set_anomaly"
    /\ call.err = "attestation does not exist for this business and period"
    /\ is_some(get_attestation(call.who, call.period))
    /\ is_none(get_anomaly(call.who, call.period))


\* the admin of the attestation registry (ADMIN_KEY_TAG)
AttAdmin == get(att_storage, ADMIN_KEY_TAG)

\* C27: The admin is set once.  After a successful initialize (bond registry)
\* or init (attestation registry) every later call of the same operation
\* fails, and the stored admin address never changes under any sequence of
\* operations.
C27_AdminSetOnce ==
    [][/\ is_some(Admin) =>
             /\ Admin' = Admin
             /\ call'.op = "initialize" =>
                    call'.err # "" /\ UNCHANGED << bondVars, balance >>
       /\ is_some(AttAdmin) =>
             /\ AttAdmin' = AttAdmin
             /\ call'.op = "init" =>
                    call'.err # "" /\ UNCHANGED << att_storage, balance >>
       /\ Admin' # Admin => call'.op = "initialize" /\ call'.err = ""
       /\ AttAdmin' # AttAdmin => call'.op = "init" /\ call'.err = ""]_vars

\* C27 witness: a second, authorized setup call naming another address was
\* refused and the first admin is still stored
C27_Witness ==
    /\ call.op = "initialize" /\ call.err = "already initialized"
    /\ Admin = Some("a2") /\ \E id \in BondIds : is_some(Bond[id])

\* the same for the attestation registry: init refused, the admin still stored
C27_InitRefused ==
    /\ call.op = "init" /\ call.err = "admin already set"
    /\ AttAdmin = Some("a2") /\ is_some(get_attestation("a1", "2026-02"))


\* the status and the resolution of a dispute ("None" / None before it is opened)
StatusOf(id) ==
    IF is_some(get_dispute(id)) THEN unwrap(get_dispute(id)).status ELSE "None"
ResolutionOf(id) ==
    IF is_some(get_dispute(id)) THEN unwrap(get_dispute(id)).resolution ELSE None
SucceededOn(c, op, id) == c.op = op /\ c.id = id /\ c.err = ""

\* C28: Dispute lifecycle.  A dispute's status moves only Open -> Resolved
\* (resolveDispute) and Resolved -> Closed (closeDispute); resolveDispute
\* fails unless the dispute is Open and closeDispute fails unless it is
\* Resolved, so no sequence of operations skips a state or moves a dispute
\* backward.
C28_DisputeLifecycle ==
    [][\A id \in DisputeIds :
          /\ StatusOf(id)' # StatusOf(id) =>
                \/ /\ StatusOf(id) = "None" /\ StatusOf(id)' = "Open"
                   /\ SucceededOn(call', "openDispute", id)
                \/ /\ StatusOf(id) = "Open" /\ StatusOf(id)' = "Resolved"
                   /\ SucceededOn(call', "resolveDispute", id)
                \/ /\ StatusOf(id) = "Resolved" /\ StatusOf(id)' = "Closed"
                   /\ SucceededOn(call', "closeDispute", id)
          /\ (call'.op = "resolveDispute" /\ call'.id = id /\ StatusOf(id) # "Open")
                => call'.err # "" /\ att_storage' = att_storage
          /\ (call'.op = "closeDispute" /\ call'.id = id /\ StatusOf(id) # "Resolved")
                => call'.err # "" /\ att_storage' = att_storage]_vars

\* C28 witness: one dispute has gone Open -> Resolved -> Closed, and a
\* closeDispute on another, still Open, was refused (close-after-open)
C28_Witness ==
    /\ call.op = "closeDispute" /\ call.err = "wrong status"
    /\ StatusOf(call.id) = "Open"
    /\ \E id \in DisputeIds : StatusOf(id) = "Closed"

\* C29: A dispute's resolution is written exactly once.  The resolution
\* record (resolver, outcome, timestamp, notes) set by the successful
\* resolveDispute is never changed afterwards, and once the dispute is Closed
\* every resolveDispute and closeDispute call on it fails and leaves it
\* unchanged.
C29_ResolutionWrittenOnce ==
    /\ [](\A id \in DisputeIds :
              is_some(ResolutionOf(id)) <=> StatusOf(id) \in {"Resolved", "Closed"})
    /\ [][\A id \in DisputeIds :
             /\ is_some(ResolutionOf(id)) => ResolutionOf(id)' = ResolutionOf(id)
             /\ ResolutionOf(id)' # ResolutionOf(id) =>
                   /\ SucceededOn(call', "resolveDispute", id)
                   /\ is_none(ResolutionOf(id))
                   /\ DOMAIN unwrap(ResolutionOf(id)') =
                          {"resolver", "outcome", "timestamp", "notes"}
                   /\ unwrap(ResolutionOf(id)').timestamp = timestamp'
             /\ ( /\ StatusOf(id) = "Closed"
                  /\ call'.op \in {"resolveDispute", "closeDispute"}
                  /\ call'.id = id )
                   => /\ call'.err = "wrong status"
                      /\ get_dispute(id)' = get_dispute(id)
                      /\ att_storage' = att_storage]_vars

\* C29 witness: a resolveDispute on a Closed dispute was refused with
\* "wrong status" and the dispute still carries the resolution it was given
C29_Witness ==
    /\ call.op = "resolveDispute" /\ call.err = "wrong status"
    /\ StatusOf(call.id) = "Closed"
    /\ unwrap(ResolutionOf(call.id)).outcome = "Upheld"


\* C30: Redemption arithmetic never overflows or wraps: for every bond
\* accepted by issue_bond and every attested_revenue in 0 .. i128::MAX,
\* calculate_redemption completes without trapping and returns a nominal
\* amount n with min_payment_per_period <= n <= max_payment_per_period.
C30_NoOverflowWithinRange ==
    is_some(calc.out) =>
        /\ ~unwrap(calc.out).trap
        /\ unwrap(calc.out).value >= unwrap(calc.bond).min_payment_per_period
        /\ unwrap(calc.out).value <= unwrap(calc.bond).max_payment_per_period

\* what does hold: the Fixed and RevenueLinked amounts never trap and lie
\* between the bond's minimum and maximum payment
C30_FixedAndLinkedWithinRange ==
    (is_some(calc.out) /\ unwrap(calc.bond).structure # "Hybrid") =>
        /\ ~unwrap(calc.out).trap
        /\ unwrap(calc.out).value >= unwrap(calc.bond).min_payment_per_period
        /\ unwrap(calc.out).value <= unwrap(calc.bond).max_payment_per_period


\* the sum of redemption_amount over the RedemptionRecords stored for a bond
RECURSIVE SumOfRecords(_, _)
SumOfRecords(id, periods) ==
    IF periods = {} THEN 0
    ELSE LET p == CHOOSE q \in periods : TRUE
             amount == IF is_some(Redemption[id][p])
                       THEN unwrap(Redemption[id][p]).redemption_amount ELSE 0
         IN amount + SumOfRecords(id, periods \ {p})

\* C31: Ledger consistency.  In every reachable state and for every bond id,
\* TotalRedeemed equals the sum of redemption_amount over all
\* RedemptionRecords stored for that bond id.
C31_LedgerConsistency ==
    \A id \in BondIds : get_total_redeemed(id) = SumOfRecords(id, Periods)

\* what does hold: every successful redeem adds the same amount to
\* TotalRedeemed and to the records of the bond, and a failed one adds nothing
C31_RedeemKeepsTheDifference ==
    [][call'.op = "redeem" =>
          \A id \in BondIds :
              get_total_redeemed(id)' - get_total_redeemed(id)
                  = SumOfRecords(id, Periods)' - SumOfRecords(id, Periods)]_vars


\* bond.face_value - total_redeemed, as get_remaining_value returns it
RemainingValue(id) == unwrap(Bond[id]).face_value - get_total_redeemed(id)

\* the state part of C32: the status of a bond and what has been redeemed
StatusMatchesTotal ==
    \A id \in Existing :
        /\ unwrap(Bond[id]).status = "Active" => RemainingValue(id) > 0
        /\ unwrap(Bond[id]).status = "FullyRedeemed" => RemainingValue(id) = 0
        /\ RemainingValue(id) >= 0

\* C32: An Active bond always has headroom.  In every reachable state a bond
\* with status Active has TotalRedeemed < face_value and a FullyRedeemed bond
\* has TotalRedeemed = face_value; hence get_remaining_value is never
\* negative and the `bond already fully redeemed` assertion in redeem is
\* never the check that fails.
C32_ActiveHasHeadroom ==
    /\ StatusMatchesTotal
    /\ ~(call.op = "redeem" /\ call.err = "bond already fully redeemed")

\* what does hold: the state part on its own
C32_StatusMatchesTotal == StatusMatchesTotal


\* C33: The holder of a bond is never its issuer.  In every reachable state
\* BondOwner(id) differs from Bond(id).issuer: issue_bond rejects
\* issuer = initial_owner, and every later operation, transfer_ownership
\* included, preserves this.
C33_HolderIsNeverIssuer ==
    \A id \in Existing :
        is_some(BondOwner[id]) => unwrap(BondOwner[id]) # unwrap(Bond[id]).issuer

\* what does hold: the holder differs from the issuer after every successful
\* issue_bond, and only a successful transfer_ownership makes them equal
C33_IssuedToAnother ==
    [][\A id \in BondIds :
          /\ (call'.op = "issue_bond" /\ call'.id = id /\ call'.err = "")
                => unwrap(BondOwner'[id]) # unwrap(Bond'[id]).issuer
          /\ ( /\ is_some(Bond[id])
               /\ unwrap(BondOwner[id]) # unwrap(Bond[id]).issuer
               /\ unwrap(BondOwner'[id]) = unwrap(Bond'[id]).issuer )
                => /\ call'.op = "transfer_ownership"
                   /\ call'.id = id /\ call'.err = ""]_vars


\* ceil(a / b) for b > 0
CeilDiv(a, b) == (a + b - 1) \div b

\* how many minimum payments the remaining face value of a bond still takes
RedemptionsLeft(id) ==
    CeilDiv(RemainingValue(id), unwrap(Bond[id]).min_payment_per_period)

\* C34: Redemption makes progress and ends.  For a bond with
\* min_payment_per_period > 0, every successful redeem increases
\* TotalRedeemed by at least min(min_payment_per_period, remaining headroom);
\* so the bond, which starts ceil(face_value / min_payment_per_period)
\* minimum payments away from its face value, comes at least one closer with
\* every successful redeem and is FullyRedeemed exactly when none is left,
\* whatever the attested revenue and whatever maturity_periods.
C34_RedemptionProgress ==
    /\ [](\A id \in Existing :
              LET b == unwrap(Bond[id])
              IN b.min_payment_per_period > 0 =>
                     /\ b.status = "Active" => RedemptionsLeft(id) >= 1
                     /\ b.status = "FullyRedeemed" => RedemptionsLeft(id) = 0)
    /\ [][\A id \in BondIds :
             /\ ( /\ call'.op = "issue_bond" /\ call'.id = id /\ call'.err = ""
                  /\ unwrap(Bond'[id]).min_payment_per_period > 0 )
                   => RedemptionsLeft(id)' =
                          CeilDiv(unwrap(Bond'[id]).face_value,
                                  unwrap(Bond'[id]).min_payment_per_period)
             /\ ( /\ call'.op = "redeem" /\ call'.id = id /\ call'.err = ""
                  /\ unwrap(Bond[id]).min_payment_per_period > 0 )
                   => /\ get_total_redeemed(id)' - get_total_redeemed(id)
                             >= Min(unwrap(Bond[id]).min_payment_per_period,
                                    RemainingValue(id))
                      /\ RedemptionsLeft(id)' <= RedemptionsLeft(id) - 1
                      /\ RedemptionsLeft(id)' = 0
                             <=> unwrap(Bond'[id]).status = "FullyRedeemed"]_vars

\* C34 witness: a Hybrid bond with face value 2, minimum payment 1 and
\* maturity_periods 1 was redeemed for two periods at revenue 0, one minimum
\* payment each, and the second redeem closed it
C34_Witness ==
    /\ call.op = "redeem" /\ call.err = "" /\ call.paid = 1
    /\ is_some(Bond[call.id])
    /\ unwrap(Bond[call.id]).structure = "Hybrid"
    /\ unwrap(Bond[call.id]).min_payment_per_period = 1
    /\ unwrap(Bond[call.id]).maturity_periods = 1
    /\ unwrap(Bond[call.id]).status = "FullyRedeemed"
    /\ get_total_redeemed(call.id) = 2
    /\ \A p \in Periods :
           /\ is_some(Redemption[call.id][p])
           /\ unwrap(Redemption[call.id][p]).redemption_amount = 1
           /\ unwrap(Redemption[call.id][p]).attested_revenue = 0

============================================================================
